---------------------------- MODULE Spec2Model ----------------------------
(***************************************************************************)
(* State-machine model of the QuickFill browser extension: the response    *)
(* cache (EnhancedCache), the completion pipelines built around it, the    *)
(* response validators, the value injector and the DOM mutation watcher.   *)
(*                                                                         *)
(* The module holds several specifications, one per component, over one    *)
(* set of variables; a specification leaves the variables of the other     *)
(* components at their initial value.                                      *)
(***************************************************************************)
EXTENDS Integers, Sequences, FiniteSets, TLC

(***************************************************************************)
(* Bounds of the model.                                                    *)
(***************************************************************************)
\* CACHE_SETTINGS.MAX_SIZE is 50 in the source; the model scales the
\* capacity down and keeps every comparison against it as in the code.
MAX_SIZE == 2
\* Last instant of the clock (Date.now()), in abstract time units.
MaxTime == 3

\* One more key than the capacity, so that a full cache can meet a new key.
Keys == 1..(MAX_SIZE + 1)
Payloads == {[kind |-> "string", text |-> "p"],
             [kind |-> "string", text |-> "q"]}
\* The lifetime handed to set(), in the clock's unit; entries differ in
\* expiresAt by the instant they are set.
Expirations == {1}
\* JavaScript null
Null == [kind |-> "null"]

VARIABLES
    \* ---- EnhancedCache (one instance under test) ----
    cacheObj,       \* [cache: key -> [data, expiresAt], accessOrder: Seq(key)]
    now,            \* Date.now()
    accessLog,      \* history: keys in the order of their latest access
    lastCall,       \* the latest method call on the cache and what it returned
    \* ---- value injector (formUtils.js) ----
    page,           \* the document: inputs, labels and the boxes holding them
    formArg,        \* the form argument: the node and its zenProcess flag
    fillRun,        \* the latest fillFormWithMappings call and its outcome
    \* ---- content script of the idx pipeline (part_005, domUtils.ts) ----
    content,        \* the document, the element map and the message handled
    \* ---- content script of the scan pipeline with its DOM observer ----
    observer,       \* the observer, its timers and what the script has done
    \* ---- response validators ----
    validation,     \* a reply, the known fields and what a validator returned
    \* ---- completion pipelines of the scan generation ----
    pipeline,       \* the two caches, the clock and the pending calls
    \* ---- a fill operation from the request to the response ----
    flow,           \* the script handling the request and what it answers
    \* ---- standalone inputs (formUtils.js) ----
    standalone,     \* a document, a list of its inputs and what was made of it
    \* ---- element indexers (formUtils.js, domUtils.ts) ----
    indexer,        \* the document, the variant that ran and its output
    \* ---- element writers (formUtils.js, domUtils.ts) ----
    injector,      \* one element, the latest call on it and the events dispatched
    \* ---- the DOMObserver class alone (constants.ts) ----
    domObserver,    \* a DOMObserver: its connection, its timers and the callbacks run
    \* ---- the highlight of a filled field (domUtils.ts) ----
    highlight,      \* the elements with their style attributes and the pending timers
    \* ---- the settings handler of the background script (background/index.ts) ----
    background      \* the UPDATE_SETTINGS messages of the background script and their answers

cacheVars == <<cacheObj, now, accessLog, lastCall>>

formVars == <<page, formArg, fillRun>>

vars == <<cacheObj, now, accessLog, lastCall, page, formArg, fillRun,
          content, observer, validation, pipeline, flow, standalone, indexer,
          injector, domObserver, highlight, background>>

(***************************************************************************)
(* Helpers on sequences.                                                   *)
(***************************************************************************)
\* Array.prototype.indexOf: the first position of x in s, 0 when absent
\* (positions are 1-based here, -1 in JavaScript).
indexOf(s, x) ==
    IF \E i \in 1..Len(s) : s[i] = x
    THEN CHOOSE i \in 1..Len(s) : s[i] = x /\ \A j \in 1..(i-1) : s[j] # x
    ELSE 0

\* Array.prototype.splice(index, 1): s without its element at position i.
splice1(s, i) == [j \in 1..(Len(s)-1) |-> IF j < i THEN s[j] ELSE s[j+1]]

\* The function f without the key k (Map.prototype.delete).
MapDelete(f, k) == [x \in (DOMAIN f) \ {k} |-> f[x]]

\* The function f with k bound to v (Map.prototype.set).
MapSet(f, k, v) == [x \in (DOMAIN f) \cup {k} |-> IF x = k THEN v ELSE f[x]]

EmptyMap == [x \in {} |-> 0]

(***************************************************************************)
(* EnhancedCache (gptProcessor.js).  A cache object is the record          *)
(* [cache, accessOrder]; each method is a function of the object.          *)
(***************************************************************************)
NewCache == [cache |-> EmptyMap, accessOrder |-> <<>>]

has(c, key) == key \in DOMAIN c.cache

size(c) == Cardinality(DOMAIN c.cache)

\* updateAccessTime pushing the key without removing its earlier position.
updateAccessTime_pushOnly(c, key) ==
    [c EXCEPT !.accessOrder = Append(c.accessOrder, key)]

updateAccessTime(c, key) ==
    LET index == indexOf(c.accessOrder, key)
        removed == IF index > 0 THEN splice1(c.accessOrder, index)
                   ELSE c.accessOrder
    IN [c EXCEPT !.accessOrder = Append(removed, key)]

\* evictLRU taking the most recently used key (pop instead of shift).
evictLRU_pop(c) ==
    IF Len(c.accessOrder) > 0
    THEN LET mruKey == c.accessOrder[Len(c.accessOrder)]
         IN [cache |-> MapDelete(c.cache, mruKey),
             accessOrder |-> SubSeq(c.accessOrder, 1, Len(c.accessOrder) - 1)]
    ELSE c

evictLRU(c) ==
    IF Len(c.accessOrder) > 0
    THEN LET lruKey == Head(c.accessOrder)
         IN [cache |-> MapDelete(c.cache, lruKey),
             accessOrder |-> Tail(c.accessOrder)]
    ELSE c

delete(c, key) ==
    LET index == indexOf(c.accessOrder, key)
    IN [cache |-> MapDelete(c.cache, key),
        accessOrder |-> IF index > 0 THEN splice1(c.accessOrder, index)
                        ELSE c.accessOrder]

clear(c) == [cache |-> EmptyMap, accessOrder |-> <<>>]

\* get treating an entry as expired from the instant expiresAt on.
get_expiredAtDeadline(c, key, t) ==
    IF ~ has(c, key) THEN [c |-> c, ret |-> Null]
    ELSE LET entry == c.cache[key]
             c1 == updateAccessTime(c, key)
         IN IF t >= entry.expiresAt
            THEN [c |-> delete(c1, key), ret |-> Null]
            ELSE [c |-> c1, ret |-> entry.data]

\* get returns the pair of the cache after the call and the value returned.
get(c, key, t) ==
    IF ~ has(c, key) THEN [c |-> c, ret |-> Null]
    ELSE LET entry == c.cache[key]
             c1 == updateAccessTime(c, key)
         IN IF t > entry.expiresAt
            THEN [c |-> delete(c1, key), ret |-> Null]
            ELSE [c |-> c1, ret |-> entry.data]

\* set evicting only once the capacity is exceeded.
set_evictAboveCapacity(c, key, data, expiration, t) ==
    LET c1 == IF size(c) > MAX_SIZE /\ ~ has(c, key) THEN evictLRU(c) ELSE c
        expiresAt == t + expiration
        c2 == [c1 EXCEPT !.cache = MapSet(c1.cache, key,
                                  [data |-> data, expiresAt |-> expiresAt])]
    IN updateAccessTime(c2, key)

set(c, key, data, expiration, t) ==
    LET c1 == IF size(c) >= MAX_SIZE /\ ~ has(c, key) THEN evictLRU(c) ELSE c
        expiresAt == t + expiration
        c2 == [c1 EXCEPT !.cache = MapSet(c1.cache, key,
                                  [data |-> data, expiresAt |-> expiresAt])]
    IN updateAccessTime(c2, key)

(***************************************************************************)
(* Strings.  A string is the sequence of its characters, so that           *)
(* toLowerCase, trim and includes are computed, not assumed.               *)
(***************************************************************************)
\* The letters, with the accented ones of the vocabulary written out.
UpperChars == <<"A","B","C","D","E","F","G","H","I","J","K","L","M",
                "N","O","P","Q","R","S","T","U","V","W","X","Y","Z",
                "A_tilde","I_acute">>
LowerChars == <<"a","b","c","d","e","f","g","h","i","j","k","l","m",
                "n","o","p","q","r","s","t","u","v","w","x","y","z",
                "a_tilde","i_acute">>
DigitChars == {"0","1","2","3","4","5","6","7","8","9"}

\* The prefix of the id of a custom select.
SelectPrefix == <<"S","e","l","e","c","t">>

\* String.prototype.toLowerCase
toLowerCase(str) ==
    [i \in 1..Len(str) |->
        IF \E k \in DOMAIN UpperChars : UpperChars[k] = str[i]
        THEN LowerChars[CHOOSE k \in DOMAIN UpperChars : UpperChars[k] = str[i]]
        ELSE str[i]]

\* String.prototype.trim
trim(str) ==
    LET keep == {i \in 1..Len(str) : str[i] # " "}
    IN IF keep = {} THEN <<>>
       ELSE LET lo == CHOOSE i \in keep : \A j \in keep : i <= j
                hi == CHOOSE i \in keep : \A j \in keep : i >= j
            IN SubSeq(str, lo, hi)

\* String.prototype.includes
includes(str, sub) ==
    \E i \in 0..(Len(str) - Len(sub)) : SubSeq(str, i + 1, i + Len(sub)) = sub

\* Whether "#" followed by str parses as an ID selector: str is a CSS
\* identifier (it does not start with a digit and has no space); otherwise
\* querySelector throws a SyntaxError.
IsCssIdentifier(str) ==
    /\ str # <<>>
    /\ str[1] \notin DigitChars
    /\ \A i \in 1..Len(str) : str[i] # " "

\* The smallest member of a set of positions, 0 (no element) when empty:
\* the first match in document order.
First(S) == IF S = {} THEN 0 ELSE CHOOSE i \in S : \A j \in S : i <= j

(***************************************************************************)
(* The document.  page.inputs and page.labels are in document order; each  *)
(* node lies in a box (a container element, child of the form element or   *)
(* of the body), and page.boxForm tells which boxes are inside the form.   *)
(*   input: [id, name, type, value, checked, box, wrap, top]               *)
(*          wrap: the label element that contains the input, 0 for none    *)
(*   label: [text, for, box, top]                                          *)
(* Inside a box the labels come first, then the inputs outside any label.  *)
(***************************************************************************)
NoElement == 0

Inputs(pg) == 1..Len(pg.inputs)
Labels(pg) == 1..Len(pg.labels)

\* The inputs below the form argument: all of them for document.body, the
\* ones in a box of the form for the form element.
InScope(pg, form) ==
    {i \in Inputs(pg) : form.node = "body" \/ pg.boxForm[pg.inputs[i].box]}

LabelsInScope(pg, form) ==
    {l \in Labels(pg) : form.node = "body" \/ pg.boxForm[pg.labels[l].box]}

\* document.getElementById
getElementById(pg, id) == First({i \in Inputs(pg) : pg.inputs[i].id = id})

\* labelEl.querySelectorAll('input, select, textarea')
InputsInLabel(pg, l) == {i \in Inputs(pg) : pg.inputs[i].wrap = l}

\* labelEl.parentElement.querySelectorAll('input, select, textarea')
InputsInBox(pg, b) == {i \in Inputs(pg) : pg.inputs[i].box = b}

\* The inputs below the parent of a box: the form for a box of the form,
\* the body otherwise.
InputsUnderParentOf(pg, b) ==
    IF pg.boxForm[b] THEN {i \in Inputs(pg) : pg.boxForm[pg.inputs[i].box]}
    ELSE Inputs(pg)

\* The test of a label element against the label of a mapping.
LabelMatches(pg, l, label) ==
    LET labelText == trim(pg.labels[l].text)
    IN \/ toLowerCase(labelText) = toLowerCase(label)
       \/ includes(toLowerCase(labelText), toLowerCase(label))

\* getAssociatedLabel: label[for=id], else the enclosing label, else the
\* label that is the previous sibling (the last label of the box, for the
\* first input of the box that is outside any label).
getAssociatedLabel(pg, i) ==
    LET el == pg.inputs[i]
        byFor == {l \in Labels(pg) : pg.labels[l].for = el.id}
        loose == {j \in InputsInBox(pg, el.box) : pg.inputs[j].wrap = 0}
        boxLabels == {l \in Labels(pg) : pg.labels[l].box = el.box}
    IN IF el.id # <<>> /\ byFor # {} THEN First(byFor)
       ELSE IF el.wrap # 0 THEN el.wrap
       ELSE IF i = First(loose) /\ boxLabels # {}
            THEN CHOOSE l \in boxLabels : \A k \in boxLabels : k <= l
       ELSE 0

(***************************************************************************)
(* fillFormWithMappings: the lookup of the target of one mapping.          *)
(*   mapping: [htmlElementId, value, label, type]                          *)
(* A lookup yields [el, threw]: the element found (NoElement for none) and *)
(* whether a selector query threw.                                         *)
(***************************************************************************)
Found(el) == [el |-> el, threw |-> FALSE]
Thrown == [el |-> NoElement, threw |-> TRUE]

\* (1) form.querySelector("#id") || form.querySelector('[name="id"]')
ByIdOrName(pg, form, m) ==
    IF m.htmlElementId = <<>> THEN NoElement
    ELSE LET byId == {i \in InScope(pg, form) :
                         pg.inputs[i].id = m.htmlElementId}
             byName == {i \in InScope(pg, form) :
                         pg.inputs[i].name = m.htmlElementId}
         IN IF byId # {} THEN First(byId) ELSE First(byName)

\* (2) the loop over every label of the document, from label l on, with
\* the element found so far.  A label with a resolvable "for", an input
\* inside it or an input in its parent ends the loop; in zen mode a label
\* without any of them takes the first input below its grandparent and
\* the loop goes on.
RECURSIVE LabelLoop(_, _, _, _, _)
LabelLoop(pg, form, label, l, element) ==
    IF l > Len(pg.labels) THEN element
    ELSE IF ~ LabelMatches(pg, l, label)
         THEN LabelLoop(pg, form, label, l + 1, element)
    ELSE LET lab == pg.labels[l]
             inputById == IF lab.for # <<>> THEN getElementById(pg, lab.for)
                          ELSE NoElement
             inputsInLabel == InputsInLabel(pg, l)
             nearbyInputs == InputsInBox(pg, lab.box)
         IN IF inputById # NoElement THEN inputById
            ELSE IF inputsInLabel # {} THEN First(inputsInLabel)
            ELSE IF nearbyInputs # {} THEN First(nearbyInputs)
            ELSE IF form.zenProcess /\ element = NoElement
                 THEN LET siblingInputs ==
                              InputsUnderParentOf(pg, lab.box) \ nearbyInputs
                          allInputs == InputsUnderParentOf(pg, lab.box)
                      IN LabelLoop(pg, form, label, l + 1,
                                   IF siblingInputs # {}
                                   THEN First(siblingInputs)
                                   ELSE First(allInputs))
            ELSE LabelLoop(pg, form, label, l + 1, element)

\* (2) the form-scoped search that follows the loop outside zen mode.
FormScopedLabel(pg, form, label) ==
    LET matching == {l \in LabelsInScope(pg, form) : LabelMatches(pg, l, label)}
        matchingLabel == First(matching)
    IN IF matchingLabel = 0 THEN Found(NoElement)
       ELSE LET lab == pg.labels[matchingLabel]
                byFor == IF lab.for = <<>> THEN NoElement
                         ELSE First({i \in InScope(pg, form) :
                                        pg.inputs[i].id = lab.for})
                nearbyInputs == InputsInBox(pg, lab.box)
                inputsInLabel == InputsInLabel(pg, matchingLabel)
            IN IF lab.for # <<>> /\ ~ IsCssIdentifier(lab.for) THEN Thrown
               ELSE IF byFor # NoElement THEN Found(byFor)
               ELSE IF nearbyInputs # {} THEN Found(First(nearbyInputs))
               ELSE Found(First(inputsInLabel))

ByLabel(pg, form, m) ==
    IF m.label = <<>> THEN Found(NoElement)
    ELSE LET element == LabelLoop(pg, form, m.label, 1, NoElement)
         IN IF element = NoElement /\ ~ form.zenProcess
            THEN FormScopedLabel(pg, form, m.label)
            ELSE Found(element)

\* (3) the first radio input of the form whose value is the mapping's.
ByRadioValue(pg, form, m) ==
    IF m.type = "radio" /\ m.value # <<>>
    THEN First({i \in InScope(pg, form) :
                  /\ pg.inputs[i].type = "radio"
                  /\ pg.inputs[i].value = m.value})
    ELSE NoElement

Abs(x) == IF x < 0 THEN -x ELSE x

\* (4) the elements of the declared type; with a label, the one closest to
\* a text node containing the label, else the first one.
ByType(pg, form, m) ==
    IF m.type = "" THEN NoElement
    ELSE LET elements == {i \in InScope(pg, form) : pg.inputs[i].type = m.type}
             texts == {l \in LabelsInScope(pg, form) :
                         includes(toLowerCase(trim(pg.labels[l].text)),
                                  toLowerCase(m.label))}
             distance(l, i) == Abs(pg.labels[l].top - pg.inputs[i].top)
             pairs == texts \X elements
             \* the pair the nested loops reach first among the closest ones
             best == CHOOSE p \in pairs :
                        \A q \in pairs :
                           \/ distance(p[1], p[2]) < distance(q[1], q[2])
                           \/ /\ distance(p[1], p[2]) = distance(q[1], q[2])
                              /\ \/ p[1] < q[1]
                                 \/ p[1] = q[1] /\ p[2] <= q[2]
         IN IF elements = {} THEN NoElement
            ELSE IF m.label # <<>> /\ pairs # {} THEN best[2]
            ELSE First(elements)

\* (5) the first input whose id or name contains the identifier.
ByPartialId(pg, form, m) ==
    IF m.htmlElementId = <<>> THEN NoElement
    ELSE First({i \in InScope(pg, form) :
                  \/ /\ pg.inputs[i].id # <<>>
                     /\ includes(pg.inputs[i].id, m.htmlElementId)
                  \/ /\ pg.inputs[i].name # <<>>
                     /\ includes(pg.inputs[i].name, m.htmlElementId)})

\* The results of the five lookups, each run on its own.
StrategyResults(pg, form, m) ==
    << ByIdOrName(pg, form, m), ByLabel(pg, form, m).el,
       ByRadioValue(pg, form, m), ByType(pg, form, m),
       ByPartialId(pg, form, m) >>

\* The state of the lookup of one mapping: the element found so far,
\* whether a query threw, and the steps run so far.  After(r, k, res) is the
\* state once step k has run with result res.
NoneFound == [el |-> NoElement, threw |-> FALSE, evaluated |-> {}]

After(r, k, res) ==
    [el |-> res.el, threw |-> res.threw, evaluated |-> r.evaluated \cup {k}]

\* if (htmlElementId) { ... }
step1(pg, form, m, r) ==
    IF m.htmlElementId # <<>>
    THEN After(r, 1, Found(ByIdOrName(pg, form, m)))
    ELSE r

\* if (!element && label) { ... }
step2(pg, form, m, r) ==
    IF r.el = NoElement /\ m.label # <<>>
    THEN After(r, 2, ByLabel(pg, form, m))
    ELSE r

\* The radio lookup run whatever the earlier steps found.
step3_always(pg, form, m, r) ==
    IF ~ r.threw /\ m.type = "radio" /\ m.value # <<>>
    THEN After(r, 3, Found(IF ByRadioValue(pg, form, m) # NoElement
                           THEN ByRadioValue(pg, form, m) ELSE r.el))
    ELSE r

\* if (!element && type === "radio" && value) { ... }
step3(pg, form, m, r) ==
    IF ~ r.threw /\ r.el = NoElement /\ m.type = "radio" /\ m.value # <<>>
    THEN After(r, 3, Found(ByRadioValue(pg, form, m)))
    ELSE r

\* if (!element && type) { ... }
step4(pg, form, m, r) ==
    IF ~ r.threw /\ r.el = NoElement /\ m.type # ""
    THEN After(r, 4, Found(ByType(pg, form, m)))
    ELSE r

\* if (!element && htmlElementId) { ... }
step5(pg, form, m, r) ==
    IF ~ r.threw /\ r.el = NoElement /\ m.htmlElementId # <<>>
    THEN After(r, 5, Found(ByPartialId(pg, form, m)))
    ELSE r

\* The chain of the five lookups of one mapping: each runs only while
\* element is null, and none runs once a query has thrown.
findElement(pg, form, m) ==
    step5(pg, form, m,
      step4(pg, form, m,
        step3(pg, form, m,
          step2(pg, form, m,
            step1(pg, form, m, NoneFound)))))

(***************************************************************************)
(* Writing a value into an element.  Values are strings here; an accented  *)
(* character is one character ("a_tilde", "i_acute").                      *)
(***************************************************************************)
\* parseInt of a string: its leading digits, -1 standing for NaN.  One
\* leading digit is enough for the positions of a radio group.
DigitValue(ch) == CHOOSE n \in 0..9 : <<"0","1","2","3","4","5","6","7","8","9">>[n + 1] = ch

parseInt(str) ==
    IF str # <<>> /\ str[1] \in DigitChars /\ (Len(str) = 1 \/ str[2] \notin DigitChars)
    THEN DigitValue(str[1])
    ELSE -1

\* document.getElementsByName
getElementsByName(pg, name) == {i \in Inputs(pg) : pg.inputs[i].name = name}

\* The text of the label associated with an input, trimmed and lowercased;
\* no label gives the empty string.
AssociatedLabelText(pg, i) ==
    IF getAssociatedLabel(pg, i) = 0 THEN <<>>
    ELSE toLowerCase(trim(pg.labels[getAssociatedLabel(pg, i)].text))

positiveValues == {<<"t","r","u","e">>, <<"1">>, <<"y","e","s">>, <<"s","i","m">>, <<"v","e","r","d","a","d","e","i","r","o">>,
                   <<"c","h","e","c","k","e","d">>, <<"s","e","l","e","c","t","e","d">>, <<"o","n">>}

negativeValues == {<<"f","a","l","s","e">>, <<"0">>, <<"n","o">>, <<"n","a_tilde","o">>, <<"n","a","o">>,
                   <<"f","a","l","s","o">>, <<"u","n","c","h","e","c","k","e","d">>, <<"u","n","s","e","l","e","c","t","e","d">>, <<"o","f","f">>}

agreementTerms == {<<"a","g","r","e","e">>, <<"a","c","c","e","p","t">>, <<"c","o","n","s","e","n","t">>, <<"t","e","r","m","s">>,
                   <<"p","o","l","i","c","y">>, <<"p","r","i","v","a","c","y">>, <<"n","e","w","s","l","e","t","t","e","r">>, <<"e","m","a","i","l">>,
                   <<"s","u","b","s","c","r","i">>, <<"o","f","f","e","r","s">>, <<"n","e","w","s">>}

\* A checked state inferred from the label alone.
CheckboxChecked_byLabel(pg, i, value) ==
    IF AssociatedLabelText(pg, i) = <<>> THEN pg.inputs[i].checked
    ELSE \/ includes(toLowerCase(value), AssociatedLabelText(pg, i))
         \/ includes(AssociatedLabelText(pg, i), toLowerCase(value))
         \/ \E term \in agreementTerms :
               includes(AssociatedLabelText(pg, i), term)
         \/ pg.inputs[i].checked

\* The checked state a checkbox gets for a value.
CheckboxChecked(pg, i, value) ==
    LET valueLower == toLowerCase(value)
        labelText == AssociatedLabelText(pg, i)
    IN IF valueLower \in positiveValues THEN TRUE
       ELSE IF valueLower \in negativeValues THEN FALSE
       ELSE IF labelText # <<>>
            THEN IF \/ includes(valueLower, labelText)
                    \/ includes(labelText, valueLower)
                 THEN TRUE
                 ELSE IF \E term \in agreementTerms : includes(labelText, term)
                      THEN TRUE
                      ELSE pg.inputs[i].checked
       ELSE pg.inputs[i].checked

\* shouldCheck of the radio branch.
shouldCheck(pg, i, value) ==
    LET el == pg.inputs[i]
        valueLower == toLowerCase(value)
        hasLabel == getAssociatedLabel(pg, i) # 0
        labelText == AssociatedLabelText(pg, i)
        allRadios == getElementsByName(pg, el.name)
        position == Cardinality({j \in allRadios : j < i})
    IN \/ value = <<"t","r","u","e">> \/ value = <<"1">> \/ valueLower = <<"y","e","s">>
       \/ el.value # <<>> /\ value # <<>> /\ el.value = value
       \/ /\ el.value = <<"1">>
          /\ \/ includes(valueLower, <<"f","i_acute","s","i","c","a">>)
             \/ includes(valueLower, <<"f","i","s","i","c","a">>)
             \/ valueLower = <<"p","f">>
       \/ /\ el.value = <<"2">>
          /\ \/ includes(valueLower, <<"j","u","r","i_acute","d","i","c","a">>)
             \/ includes(valueLower, <<"j","u","r","i","d","i","c","a">>)
             \/ valueLower = <<"p","j">>
       \/ el.value = value
       \/ /\ hasLabel
          /\ \/ labelText = valueLower
             \/ includes(labelText, valueLower)
             \/ includes(valueLower, labelText)
             \/ /\ \/ includes(labelText, <<"m","a","l","e">>)
                   \/ includes(labelText, <<"h","o","m","e","m">>)
                   \/ labelText = <<"m">>
                /\ valueLower \in {<<"m","a","l","e">>, <<"h","o","m","e","m">>, <<"m">>}
             \/ /\ \/ includes(labelText, <<"f","e","m","a","l","e">>)
                   \/ includes(labelText, <<"m","u","l","h","e","r">>)
                   \/ labelText = <<"f">>
                /\ valueLower \in {<<"f","e","m","a","l","e">>, <<"m","u","l","h","e","r">>, <<"f">>}
       \/ /\ el.name # <<>>
          /\ Cardinality(allRadios) > 1
          /\ parseInt(value) = position + 1

fillCheckboxOrRadio(pg, i, value) ==
    IF pg.inputs[i].type = "checkbox"
    THEN [pg EXCEPT !.inputs[i].checked = CheckboxChecked(pg, i, value)]
    ELSE IF pg.inputs[i].type = "radio" /\ shouldCheck(pg, i, value)
         THEN [pg EXCEPT !.inputs[i].checked = TRUE]
         ELSE pg

\* The input types fillElement hands to fillInputElement.
TextLikeTypes == {"text", "email", "number", "tel", "url", "password",
                  "date", "hidden"}

\* A date string is a sequence of tokens: two digits, a separator, two
\* digits, a separator, four digits (or the reverse for the ISO form).
TwoDigits == {"02", "12", "31"}
FourDigits == {"2024"}

\* /^\d{2}\/\d{2}\/\d{4}$/.test(value)
isBrazilianDate(value) ==
    /\ Len(value) = 5 /\ value[2] = "/" /\ value[4] = "/"
    /\ value[1] \in TwoDigits /\ value[3] \in TwoDigits
    /\ value[5] \in FourDigits

\* A string of the form YYYY-MM-DD.
isIsoDate(value) ==
    /\ Len(value) = 5 /\ value[2] = "-" /\ value[4] = "-"
    /\ value[1] \in FourDigits /\ value[3] \in TwoDigits
    /\ value[5] \in TwoDigits

\* new Date("YYYY-MM-DD") is a valid date: the month exists and has the day.
validDate(iso) ==
    /\ isIsoDate(iso)
    /\ iso[3] \in {"02", "12"}
    /\ iso[5] = "31" => iso[3] = "12"

\* The setter of element.value: a date input keeps a valid date string and
\* turns any other string into the empty string.
setValue(pg, i, value) ==
    [pg EXCEPT !.inputs[i].value =
                  IF pg.inputs[i].type = "date" /\ ~ validDate(value)
                  THEN <<>> ELSE value]

\* The date of fillInputElement for a date input: DD/MM/YYYY is turned
\* round and parsed, anything else is parsed as it is; the ISO string of a
\* valid date, the value itself where the parse fails (the catch).
dateValue(value) ==
    IF isBrazilianDate(value)
       /\ validDate(<<value[5], "-", value[3], "-", value[1]>>)
    THEN <<value[5], "-", value[3], "-", value[1]>>
    ELSE value

\* fillInputElement appending the value to the one the element has.
fillInputElement_append(pg, i, value) ==
    setValue(pg, i, pg.inputs[i].value \o value)

\* fillInputElement, for an input without the attribute maskplaceholder.
fillInputElement(pg, i, value) ==
    IF pg.inputs[i].type = "date" /\ value # <<>>
    THEN setValue(pg, i, dateValue(value))
    ELSE setValue(pg, i, value)

\* highlightFilledField
highlightFilledField(pg, i) == [pg EXCEPT !.inputs[i].filled = TRUE]

\* A node events are dispatched on: element i, or the hidden input inside
\* it.
Node(i, hidden) == [el |-> i, hidden |-> hidden]

\* The two events, the change event first.
triggerEvents_changeFirst(node) ==
    <<[type |-> "change", bubbles |-> TRUE, target |-> node],
      [type |-> "input", bubbles |-> TRUE, target |-> node]>>

\* triggerEvents(element): the events it dispatches, in order.
triggerEvents(node) ==
    <<[type |-> "input", bubbles |-> TRUE, target |-> node],
      [type |-> "change", bubbles |-> TRUE, target |-> node]>>

\* The events fillCheckboxOrRadio dispatches: the ones of a radio button it
\* checks.
radioEvents(pg, i, value) ==
    IF pg.inputs[i].type = "radio" /\ shouldCheck(pg, i, value)
    THEN triggerEvents(Node(i, FALSE))
    ELSE <<>>

\* text.toLowerCase().replace(/[^a-z0-9]/g, '')
normalizeText(text) ==
    SelectSeq(toLowerCase(text),
              LAMBDA c : c \in DigitChars
                         \/ \E k \in 1..26 : LowerChars[k] = c)

\* option.textContent.trim()
optionText(option) == trim(option.text)

\* The three tests of fillSelectElement on an option.
exactMatch(option, value) ==
    \/ toLowerCase(option.value) = toLowerCase(value)
    \/ toLowerCase(optionText(option)) = toLowerCase(value)

partialOptionMatch(option, value) ==
    \/ includes(toLowerCase(optionText(option)), toLowerCase(value))
    \/ includes(toLowerCase(value), toLowerCase(optionText(option)))

normalizedMatch(option, value) ==
    \/ normalizeText(optionText(option)) = normalizeText(value)
    \/ includes(normalizeText(optionText(option)), normalizeText(value))
    \/ includes(normalizeText(value), normalizeText(optionText(option)))

\* The loops of fillSelectElement with the substring loop ahead of the
\* exact one.
matchedOption_partialFirst(options, value) ==
    IF \E k \in DOMAIN options : partialOptionMatch(options[k], value)
    THEN [tier |-> "partial",
          option |-> First({k \in DOMAIN options :
                            partialOptionMatch(options[k], value)})]
    ELSE IF \E k \in DOMAIN options : exactMatch(options[k], value)
    THEN [tier |-> "exact",
          option |-> First({k \in DOMAIN options :
                            exactMatch(options[k], value)})]
    ELSE IF \E k \in DOMAIN options : normalizedMatch(options[k], value)
    THEN [tier |-> "normalized",
          option |-> First({k \in DOMAIN options :
                            normalizedMatch(options[k], value)})]
    ELSE [tier |-> "none", option |-> 0]

\* The option the loops of fillSelectElement stop at (0: none matched), and
\* the tier it matched in.
matchedOption(options, value) ==
    IF \E k \in DOMAIN options : exactMatch(options[k], value)
    THEN [tier |-> "exact",
          option |-> First({k \in DOMAIN options :
                            exactMatch(options[k], value)})]
    ELSE IF \E k \in DOMAIN options : partialOptionMatch(options[k], value)
    THEN [tier |-> "partial",
          option |-> First({k \in DOMAIN options :
                            partialOptionMatch(options[k], value)})]
    ELSE IF \E k \in DOMAIN options : normalizedMatch(options[k], value)
    THEN [tier |-> "normalized",
          option |-> First({k \in DOMAIN options :
                            normalizedMatch(options[k], value)})]
    ELSE [tier |-> "none", option |-> 0]

\* element.value = optionValue on a select: the first option of that value
\* becomes the selected one.
setSelectValue(pg, i, optionValue) ==
    [pg EXCEPT !.inputs[i].selectedIndex =
                  First({k \in DOMAIN pg.inputs[i].options :
                         pg.inputs[i].options[k].value = optionValue}),
               !.inputs[i].value = optionValue]

\* fillSelectElement, for a string.
fillSelectElement(pg, i, value) ==
    IF matchedOption(pg.inputs[i].options, value).option = 0 THEN pg
    ELSE setSelectValue(pg, i,
            pg.inputs[i].options[
               matchedOption(pg.inputs[i].options, value).option].value)

\* element.id.startsWith("Select")
startsWithSelect(id) ==
    Len(id) >= Len(SelectPrefix)
    /\ SubSeq(id, 1, Len(SelectPrefix)) = SelectPrefix

\* The branch of fillElement for a custom select: the hidden input gets
\* the value and the events; without a hidden input the call returns
\* false.
fillCustomSelect(pg, i, value) ==
    IF pg.inputs[i].hiddenInput
    THEN [page |-> highlightFilledField(
                      [pg EXCEPT !.inputs[i].hiddenValue = value,
                                 !.inputs[i].hiddenFilled = TRUE], i),
          ok |-> TRUE,
          events |-> triggerEvents(Node(i, TRUE))]
    ELSE [page |-> pg, ok |-> FALSE, events |-> <<>>]

\* The end of fillElement on an element it has handled:
\* highlightFilledField, triggerEvents and return true; events: the ones
\* dispatched before.
handled(pg, i, events) ==
    [page |-> highlightFilledField(pg, i), ok |-> TRUE,
     events |-> events \o triggerEvents(Node(i, FALSE))]

\* fillElement yields [page, ok, events]: the document after the call, the
\* value returned and the events dispatched.  The type of an element
\* without a type property is its tag name; a div has no value property.
\* Assigning a non-empty value to a file input throws (InvalidStateError);
\* the catch returns false.
fillElement(pg, i, value) ==
    IF pg.inputs[i].type = "div" /\ startsWithSelect(pg.inputs[i].id)
    THEN fillCustomSelect(pg, i, value)
    ELSE IF pg.inputs[i].type = "select-one"
    THEN handled(fillSelectElement(pg, i, value), i, <<>>)
    ELSE IF pg.inputs[i].type \in {"checkbox", "radio"}
    THEN handled(fillCheckboxOrRadio(pg, i, value), i,
                 radioEvents(pg, i, value))
    ELSE IF pg.inputs[i].type \in TextLikeTypes
    THEN handled(fillInputElement(pg, i, value), i, <<>>)
    ELSE IF pg.inputs[i].type = "div"
            \/ (pg.inputs[i].type = "file" /\ value # <<>>)
    THEN [page |-> pg, ok |-> FALSE, events |-> <<>>]
    ELSE handled([pg EXCEPT !.inputs[i].value = value], i, <<>>)

(***************************************************************************)
(* fillFormWithMappings.  A run is                                         *)
(*   [page, outcomes, filledFields, threw]                                 *)
(* outcomes: for each mapping attempted, the element found, the lookups    *)
(* run, whether the lookup threw and the result of fillElement; threw: an  *)
(* exception left the forEach callback, and so the function.  The field    *)
(* alone of an outcome is history: what each of the five lookups gives     *)
(* when run on its own on the document as the mapping is reached.          *)
(***************************************************************************)
\* The run after one mapping: found is the result of its lookup, alone the
\* results of the five lookups run on their own, w the result of
\* fillElement on the element found.
afterMapping(run, found, alone, w) ==
    LET filled == ~ found.threw /\ found.el # NoElement /\ w.ok
    IN [page |-> IF found.threw \/ found.el = NoElement THEN run.page
                 ELSE w.page,
        outcomes |-> Append(run.outcomes,
                            [el |-> found.el, evaluated |-> found.evaluated,
                             threw |-> found.threw, filled |-> filled,
                             alone |-> alone]),
        filledFields |-> IF filled THEN run.filledFields + 1
                         ELSE run.filledFields,
        threw |-> found.threw]

\* fillElement on the element found, if any.
fillFound(pg, found, value) ==
    IF found.el = NoElement THEN [page |-> pg, ok |-> FALSE]
    ELSE fillElement(pg, found.el, value)

\* The forEach callback on mapping m.
oneMapping(run, form, m, found) ==
    afterMapping(run, found, StrategyResults(run.page, form, m),
                 fillFound(run.page, found, m.value))

RECURSIVE forEachMapping(_, _, _, _)
forEachMapping(run, form, mappings, k) ==
    IF k > Len(mappings) \/ run.threw THEN run
    ELSE forEachMapping(
            oneMapping(run, form, mappings[k],
                       findElement(run.page, form, mappings[k])),
            form, mappings, k + 1)

fillFormWithMappings(pg, form, mappings) ==
    LET start == [page |-> pg, outcomes |-> <<>>, filledFields |-> 0,
                  threw |-> FALSE]
    IN IF Len(mappings) = 0 THEN start
       ELSE forEachMapping(start, form, mappings, 1)

(***************************************************************************)
(* The components.  Each specification runs one component; the variables   *)
(* of the others keep the value they have before the component is used.    *)
(***************************************************************************)
\* removed: the keys the call took out of the map.
NoCall == [op |-> "none", key |-> 0, ret |-> Null, removed |-> {}]

NoPage == [inputs |-> <<>>, labels |-> <<>>, boxForm |-> <<TRUE, TRUE>>]

NoRun == [called |-> FALSE, mappings |-> <<>>, outcomes |-> <<>>,
          ret |-> 0, threw |-> FALSE]

\* No response sent yet.
NoResponse == [sent |-> FALSE]

NoContent == [doc |-> <<>>, elementMap |-> EmptyMap, currentElements |-> <<>>,
              uuids |-> 0, scans |-> 0,
              handled |-> FALSE, isArray |-> FALSE, mappings |-> <<>>,
              calls |-> <<>>, notifications |-> <<>>,
              response |-> NoResponse]

(***************************************************************************)
(* The content script of the scan pipeline (part_001) with its DOM         *)
(* observer (DOMObserver).  observer is                                    *)
(*   listening:  the message listener is installed                         *)
(*   processor:  formProcessor is set; settings: its enabled, apiKey and   *)
(*               contextData (present or not)                              *)
(*   created:    domObserver is set; startPending: the 1500 ms timer       *)
(*   observing:  DOMObserver.observer is set and observes document.body    *)
(*   timers:     pending setTimeout(onNewFormsDetected, 500)               *)
(*   callbacks:  onNewFormsDetected has run (it has logged)                *)
(*   messages:   messages handled                                          *)
(*   scans, requests, writes: extractions of the page or of a form,        *)
(*               completion requests sent, fillFormWithMappings calls      *)
(*   collected:  collectFormData calls                                     *)
(*   last:       the event handled last                                    *)
(***************************************************************************)
MaxTimers == 2
MaxMessages == 2

SettingsValues == [enabled : BOOLEAN, apiKey : BOOLEAN, contextData : BOOLEAN]

NoSettings == [enabled |-> FALSE, apiKey |-> FALSE, contextData |-> FALSE]

NoObserver == [listening |-> FALSE, processor |-> FALSE,
               settings |-> NoSettings, created |-> FALSE,
               startPending |-> FALSE, observing |-> FALSE, timers |-> 0,
               callbacks |-> FALSE, messages |-> 0, scans |-> 0,
               requests |-> 0, writes |-> 0, collected |-> 0,
               last |-> "none"]

IdleCache ==
    cacheObj = NewCache /\ now = 0 /\ accessLog = <<>> /\ lastCall = NoCall

IdleForm ==
    /\ page = NoPage
    /\ formArg = [node |-> "form", zenProcess |-> FALSE]
    /\ fillRun = NoRun

IdleContent == content = NoContent

IdleObserver == observer = NoObserver

NoValidation == [fn |-> "none"]

IdleValidator == validation = NoValidation

NoCalls == [calls |-> 0]

IdlePipeline == pipeline = NoCalls

NoFills == [fills |-> 0]

IdleFlow == flow = NoFills

NoStandalone == [called |-> FALSE]

IdleStandalone == standalone = NoStandalone

NoIndex == [indexed |-> FALSE]

IdleIndexer == indexer = NoIndex

NoWrites == [calls |-> 0]

IdleInjector == injector = NoWrites

NoDomObserver == [calls |-> 0]

IdleDomObserver == domObserver = NoDomObserver

NoHighlight == [fills |-> 0]

IdleHighlight == highlight = NoHighlight

NoBackground == [updates |-> 0]

IdleBackground == background = NoBackground

notCacheVars == <<formVars, content, observer, validation, pipeline, flow,
                  standalone, indexer, injector, domObserver, highlight, background>>
notFormVars == <<cacheVars, content, observer, validation, pipeline, flow,
                 standalone, indexer, injector, domObserver, highlight, background>>
notContentVars == <<cacheVars, formVars, observer, validation, pipeline,
                    flow, standalone, indexer, injector, domObserver, highlight, background>>
notObserverVars == <<cacheVars, formVars, content, validation, pipeline,
                     flow, standalone, indexer, injector, domObserver, highlight, background>>
notValidatorVars == <<cacheVars, formVars, content, observer, pipeline, flow,
                      standalone, indexer, injector, domObserver, highlight, background>>
notPipelineVars == <<cacheVars, formVars, content, observer, validation,
                     flow, standalone, indexer, injector, domObserver, highlight, background>>
notFlowVars == <<cacheVars, formVars, content, observer, validation,
                 pipeline, standalone, indexer, injector, domObserver, highlight, background>>
notStandaloneVars == <<cacheVars, formVars, content, observer, validation,
                       pipeline, flow, indexer, injector, domObserver, highlight, background>>
notIndexerVars == <<cacheVars, formVars, content, observer, validation,
                    pipeline, flow, standalone, injector, domObserver, highlight, background>>
notInjectorVars == <<cacheVars, formVars, content, observer, validation,
                     pipeline, flow, standalone, indexer, domObserver, highlight, background>>
notDomObserverVars == <<cacheVars, formVars, content, observer, validation,
                        pipeline, flow, standalone, indexer, injector, highlight, background>>
notHighlightVars == <<cacheVars, formVars, content, observer, validation,
                      pipeline, flow, standalone, indexer, injector, domObserver, background>>
notBackgroundVars == <<cacheVars, formVars, content, observer, validation,
                       pipeline, flow, standalone, indexer, injector, domObserver, highlight>>

(***************************************************************************)
(* The cache under an arbitrary sequence of calls.                         *)
(***************************************************************************)
\* The access history: the keys in the order of their latest access (a get
\* that found the key, or a set), kept for the keys that are in the map.
Touch(log, key) == Append(SelectSeq(log, LAMBDA k : k # key), key)

Present(log, c) == SelectSeq(log, LAMBDA k : k \in DOMAIN c.cache)

Removed(before, after) == (DOMAIN before.cache) \ (DOMAIN after.cache)

CacheInit ==
    /\ cacheObj = NewCache
    /\ now = 0
    /\ accessLog = <<>>
    /\ lastCall = NoCall
    /\ IdleForm /\ IdleContent /\ IdleObserver /\ IdleValidator
    /\ IdlePipeline /\ IdleFlow /\ IdleStandalone /\ IdleIndexer
    /\ IdleInjector /\ IdleDomObserver /\ IdleHighlight /\ IdleBackground

Get(key) ==
    LET r == get(cacheObj, key, now)
    IN /\ cacheObj' = r.c
       /\ accessLog' = Present(IF has(cacheObj, key) THEN Touch(accessLog, key)
                                ELSE accessLog, r.c)
       /\ lastCall' = [op |-> "get", key |-> key, ret |-> r.ret,
                       removed |-> Removed(cacheObj, r.c)]
       /\ UNCHANGED now

Set(key, data, expiration) ==
    /\ cacheObj' = set(cacheObj, key, data, expiration, now)
    /\ accessLog' = Present(Touch(accessLog, key), cacheObj')
    /\ lastCall' = [op |-> "set", key |-> key, ret |-> Null,
                    removed |-> Removed(cacheObj, cacheObj')]
    /\ UNCHANGED now

Delete(key) ==
    /\ cacheObj' = delete(cacheObj, key)
    /\ accessLog' = Present(accessLog, cacheObj')
    /\ lastCall' = [op |-> "delete", key |-> key, ret |-> Null,
                    removed |-> Removed(cacheObj, cacheObj')]
    /\ UNCHANGED now

Clear ==
    /\ cacheObj' = clear(cacheObj)
    /\ accessLog' = Present(accessLog, cacheObj')
    /\ lastCall' = [op |-> "clear", key |-> 0, ret |-> Null,
                    removed |-> Removed(cacheObj, cacheObj')]
    /\ UNCHANGED now

\* Time passes between two calls.
Tick ==
    /\ now < MaxTime
    /\ now' = now + 1
    /\ UNCHANGED <<cacheObj, accessLog, lastCall>>

CacheNext ==
    /\ \/ \E key \in Keys : Get(key)
       \/ \E key \in Keys, data \in Payloads, e \in Expirations :
             Set(key, data, e)
       \/ \E key \in Keys : Delete(key)
       \/ Clear
       \/ Tick
    /\ UNCHANGED notCacheVars

SpecCache == CacheInit /\ [][CacheNext]_vars

\* A step of SpecCache that is a call of the method op (Tick is the only
\* step that moves the clock, and every call records itself in lastCall).
IsCall(op) == now' = now /\ lastCall'.op = op

\* C5: after any sequence of get, set, delete and clear calls, the number
\* of stored entries never exceeds CACHE_SETTINGS.MAX_SIZE.
C5_SizeBounded == size(cacheObj) <= MAX_SIZE

\* A set on a full cache has just evicted an entry.
C5_Witness ==
    /\ lastCall.op = "set"
    /\ lastCall.removed # {}
    /\ size(cacheObj) = MAX_SIZE

\* C6: a set with a key that is not in the cache, on a cache holding
\* MAX_SIZE entries, evicts exactly one entry, the one whose latest access
\* (a get that found it, or a set) is the oldest, and leaves every other
\* entry as it was; a set on a key already present evicts nothing.
C6_EvictsLeastRecentlyAccessed ==
    [][IsCall("set") =>
        LET key == lastCall'.key
            before == DOMAIN cacheObj.cache
            after == DOMAIN cacheObj'.cache
        IN /\ (key \notin before /\ Cardinality(before) = MAX_SIZE) =>
                /\ accessLog # <<>>
                /\ before \ after = {Head(accessLog)}
                /\ \A k \in before \ {Head(accessLog)} :
                      /\ k \in after
                      /\ cacheObj'.cache[k] = cacheObj.cache[k]
           /\ key \in before => before \ after = {}
           /\ key \in after
      ]_vars

\* A set of a new key on a full cache took one key out, and the others stay.
C6_Witness ==
    /\ lastCall.op = "set"
    /\ Cardinality(lastCall.removed) = 1
    /\ lastCall.key \notin lastCall.removed
    /\ size(cacheObj) = MAX_SIZE

\* C7: get on an entry whose expiresAt is earlier than the current time
\* returns null and removes the entry, whatever its place in the access
\* order; get on an entry that has not expired returns the stored payload.
C7_ExpiredIsAbsent ==
    [][IsCall("get") =>
        LET key == lastCall'.key
        IN key \in DOMAIN cacheObj.cache =>
             IF cacheObj.cache[key].expiresAt < now
             THEN /\ lastCall'.ret = Null
                  /\ key \notin DOMAIN cacheObj'.cache
             ELSE /\ lastCall'.ret = cacheObj.cache[key].data
                  /\ key \in DOMAIN cacheObj'.cache
      ]_vars

\* A get removed the expired entry it looked up while other entries, older
\* and newer in the access order, stay in the cache.
C7_Witness ==
    /\ lastCall.op = "get"
    /\ lastCall.ret = Null
    /\ lastCall.removed = {lastCall.key}
    /\ size(cacheObj) = MAX_SIZE - 1

\* C30: after any sequence of get, set, delete, clear and evictions,
\* accessOrder holds each key of the cache map exactly once and no key that
\* is absent from the map.
C30_AccessOrderMatchesMap ==
    /\ \A key \in DOMAIN cacheObj.cache :
          Cardinality({k \in DOMAIN cacheObj.accessOrder :
                       cacheObj.accessOrder[k] = key}) = 1
    /\ \A k \in DOMAIN cacheObj.accessOrder :
          cacheObj.accessOrder[k] \in DOMAIN cacheObj.cache

\* A get has just deleted an expired entry while others remain, the
\* cache being at its capacity before the call.
C30_Witness ==
    /\ lastCall.op = "get"
    /\ lastCall.removed # {}
    /\ Len(cacheObj.accessOrder) = MAX_SIZE - 1

(***************************************************************************)
(* The documents and the mapping lists the injector is run on.             *)
(***************************************************************************)
\* Longest mapping list handed to fillFormWithMappings.
MaxMappings == 2

Boxes == {1, 2}

\* [id, name, type, value] of the first and of the second input of a
\* document.
FirstShapes ==
    { [id |-> <<"a">>, name |-> <<>>,      type |-> "text",  value |-> <<>>],
      [id |-> <<>>,    name |-> <<"a">>,   type |-> "text",  value |-> <<>>],
      [id |-> <<>>,    name |-> <<>>,      type |-> "text",  value |-> <<>>],
      [id |-> <<>>,    name |-> <<"g">>,   type |-> "radio", value |-> <<"w">>] }

SecondShapes ==
    { [id |-> <<"a">>,     name |-> <<>>,    type |-> "text",  value |-> <<>>],
      [id |-> <<"x","a">>, name |-> <<>>,    type |-> "text",  value |-> <<>>],
      [id |-> <<>>,        name |-> <<"g">>, type |-> "radio", value |-> <<"v">>],
      [id |-> <<>>,        name |-> <<>>,    type |-> "file",  value |-> <<>>] }

MakeInput(shape, box, wrap, top) ==
    [id |-> shape.id, name |-> shape.name, type |-> shape.type,
     value |-> shape.value, checked |-> FALSE, filled |-> FALSE,
     box |-> box, wrap |-> wrap, top |-> top]

\* Two inputs stacked in document order, the inputs of one box being
\* contiguous; the label of box wrapBox contains the first input of its box.
InputLists(wrapBox) ==
    { << MakeInput(s1, bb[1], IF bb[1] = wrapBox THEN 1 ELSE 0, 1),
         MakeInput(s2, bb[2],
                   IF bb[2] = wrapBox /\ bb[1] # wrapBox THEN 1 ELSE 0, 2) >> :
        s1 \in FirstShapes, s2 \in SecondShapes,
        bb \in {p \in Boxes \X Boxes : p[1] <= p[2]} }

LabelText == <<"L","m"," ">>

\* No label, or one label on the row of its box: with a "for" attribute
\* (of an existing id, or dangling and starting with a digit), or without
\* one and then possibly around an input.
LabelShapes ==
    { [for |-> <<>>, wraps |-> FALSE], [for |-> <<>>, wraps |-> TRUE],
      [for |-> <<"a">>, wraps |-> FALSE], [for |-> <<"1","x">>, wraps |-> FALSE] }

\* The first box is inside the form, the second one outside.
Pages ==
    { [inputs |-> ins, labels |-> <<>>, boxForm |-> <<TRUE, FALSE>>] :
        ins \in InputLists(0) }
    \cup
    UNION { { [inputs |-> ins,
               labels |-> << [text |-> LabelText, for |-> ls[1].for,
                              box |-> ls[2], top |-> ls[2]] >>,
               boxForm |-> <<TRUE, FALSE>>] :
                ins \in InputLists(IF ls[1].wraps THEN ls[2] ELSE 0) } :
            ls \in LabelShapes \X Boxes }

\* The form element, or document.body flagged by scanForForms.
FormArgs == { [node |-> "form", zenProcess |-> FALSE],
              [node |-> "body", zenProcess |-> TRUE] }

\* The mappings: by identifier only, by label only, by label and type, by
\* all three, and one that names nothing.
MakeMapping(id, label, type) ==
    [htmlElementId |-> id, value |-> <<"v">>, label |-> label, type |-> type]

Mappings ==
    { MakeMapping(<<"a">>, <<>>, ""),
      MakeMapping(<<>>, <<"l","m">>, ""),
      MakeMapping(<<>>, <<"l","m">>, "radio"),
      MakeMapping(<<"a">>, <<"l","m">>, "radio"),
      MakeMapping(<<>>, <<>>, "") }

RECURSIVE ListsUpTo(_, _)
ListsUpTo(S, n) ==
    IF n = 0 THEN {<<>>}
    ELSE LET shorter == ListsUpTo(S, n - 1)
         IN shorter \cup { Append(l, x) : l \in {s \in shorter : Len(s) = n - 1},
                                          x \in S }

MappingLists == ListsUpTo(Mappings, MaxMappings)

FormInit ==
    /\ page \in Pages
    /\ formArg \in FormArgs
    /\ fillRun = NoRun
    /\ IdleCache /\ IdleContent /\ IdleObserver /\ IdleValidator
    /\ IdlePipeline /\ IdleFlow /\ IdleStandalone /\ IdleIndexer
    /\ IdleInjector /\ IdleDomObserver /\ IdleHighlight /\ IdleBackground

\* The document and the record of a call that ended as run; ret is the
\* value returned, -1 when the call ended with an exception instead.
Returned(mappings, run) ==
    /\ page' = run.page
    /\ fillRun' = [called |-> TRUE, mappings |-> mappings,
                   outcomes |-> run.outcomes,
                   ret |-> IF run.threw THEN -1 ELSE run.filledFields,
                   threw |-> run.threw]

\* One call fillFormWithMappings(form, mappings).
FillForm(mappings) ==
    /\ ~ fillRun.called
    /\ Returned(mappings, fillFormWithMappings(page, formArg, mappings))
    /\ UNCHANGED <<formArg, notFormVars>>

FormNext == \E mappings \in MappingLists : FillForm(mappings)

SpecForm == FormInit /\ [][FormNext]_vars

\* C2: after a call of fillFormWithMappings no exception has left the
\* function, every mapping of the list has been attempted, and the value
\* returned is the number of mappings whose fillElement call returned true.
C2_NeverThrowsAttemptsAll ==
    fillRun.called =>
        /\ ~ fillRun.threw
        /\ Len(fillRun.outcomes) = Len(fillRun.mappings)
        /\ fillRun.ret = Cardinality({k \in DOMAIN fillRun.outcomes :
                                         fillRun.outcomes[k].filled})

\* The first element of a list of lookup results, NoElement if none.
EarliestFound(results) ==
    LET hits == {k \in DOMAIN results : results[k] # NoElement}
    IN IF hits = {} THEN NoElement ELSE results[First(hits)]

\* C3: in a call of fillFormWithMappings, the target of every mapping whose
\* lookup completed is the element found by the earliest of the five
\* strategies, in the order (1) id or name, (2) label text, (3) radio
\* value, (4) declared type, (5) partial id or name, that finds one on the
\* document as it is when the mapping is reached; and a strategy is run
\* only if every earlier one, run on its own, finds nothing.
C3_EarliestStrategyWins ==
    \A k \in DOMAIN fillRun.outcomes :
       LET o == fillRun.outcomes[k]
       IN /\ ~ o.threw => o.el = EarliestFound(o.alone)
          /\ \A s \in o.evaluated :
                \A j \in 1..(s - 1) : o.alone[j] = NoElement

\* A mapping was resolved by the last strategy after the four earlier ones
\* were run and found nothing.
C3_Witness ==
    /\ fillRun.called
    /\ \E k \in DOMAIN fillRun.outcomes :
          /\ fillRun.outcomes[k].el # NoElement
          /\ fillRun.outcomes[k].evaluated = 1..5

(***************************************************************************)
(* The content script of the idx pipeline (part_005) and the element map   *)
(* of domUtils.ts.  content is                                             *)
(*   doc:        the input and textarea elements, [type, value, filled,    *)
(*               dialog]                                                   *)
(*   elementMap: idx -> position of the element in doc                     *)
(*   currentElements: the list the latest indexAllInputs returned, each    *)
(*               entry by its idx                                          *)
(*   uuids:      the number of identifiers drawn so far; crypto.randomUUID *)
(*               gives a fresh one each time, here the next integer        *)
(*   scans:      GET_FORM_DATA messages handled                            *)
(*   handled:    a FILL_FORMS or unknown message has been answered         *)
(*   isArray, mappings: the mappings of the FILL_FORMS message             *)
(*   calls:      history: the calls fillInputByIdx(idx, value), what each  *)
(*               returned and whether it changed the document              *)
(*   notifications: the notifications shown                                *)
(*   response:   what sendResponse was last called with                    *)
(***************************************************************************)
MaxElements == 2
MaxScans == 2
MaxBatch == 3

\* INPUT_SELECTORS keeps inputs and textareas only, so no SELECT is ever in
\* the element map; a text input and a file input stand for the elements a
\* write succeeds on and the ones it throws on.
ElementTypes == {"text", "file"}

NoResults == [total |-> 0, successful |-> 0, failed |-> 0]

Response(success, elements, results, error) ==
    [sent |-> TRUE, success |-> success, elements |-> elements,
     results |-> results, error |-> error]

\* dialog: the element is inside a container that matches
\* [role="dialog"], .modal, .dialog or [aria-modal="true"].
Docs ==
    UNION { [1..n -> {[type |-> t, value |-> "", filled |-> FALSE,
                       dialog |-> d] :
                         t \in ElementTypes, d \in BOOLEAN}] :
            n \in 0..MaxElements }

\* [...new Set(list)]: the first occurrence of each member, in order.
uniqueOf(list) ==
    SelectSeq([k \in DOMAIN list |->
                  IF \A j \in 1..(k - 1) : list[j] # list[k]
                  THEN list[k] ELSE 0],
              LAMBDA e : e # 0)

\* modalInputs: the inputs found inside the dialog containers.
modalInputs(doc) ==
    SelectSeq([k \in DOMAIN doc |-> k], LAMBDA e : doc[e].dialog)

\* The elements of the page and of the dialogs put together without the
\* Set.
allElements_concat(doc) == [k \in DOMAIN doc |-> k] \o modalInputs(doc)

\* allElements: every element matched in the page or in a dialog, once.
allElements(doc) == uniqueOf([k \in DOMAIN doc |-> k] \o modalInputs(doc))

\* allElements.map(...): element all[k] gets the k-th fresh uuid, the map
\* has it under that uuid, and the list returned names the uuid.
mapAllElements(c, all) ==
    [c EXCEPT !.elementMap = [u \in DOMAIN @ \cup
                                   (c.uuids + 1)..(c.uuids + Len(all)) |->
                                 IF u > c.uuids THEN all[u - c.uuids]
                                 ELSE @[u]],
              !.currentElements = [k \in DOMAIN all |-> c.uuids + k],
              !.uuids = c.uuids + Len(all)]

\* indexAllInputs without elementMap.clear().
indexAllInputs_keepMap(c) == mapAllElements(c, allElements(c.doc))

\* indexAllInputs: the map is cleared and every element gets a fresh uuid.
indexAllInputs(c) ==
    mapAllElements([c EXCEPT !.elementMap = EmptyMap], allElements(c.doc))

\* handleGetFormData
handleGetFormData(c) ==
    [c EXCEPT !.scans = @ + 1,
              !.response = Response(TRUE, DOMAIN c.elementMap, NoResults, "")]

\* Whether inputElement.value = value throws: a file input accepts only the
\* empty string (InvalidStateError otherwise).
WriteThrows(el, value) == el.type = "file" /\ value # ""

\* fillInputByIdx yields [doc, ret].  An exception in the write is caught
\* and gives false; a successful write is followed by applyFilledStyle.
fillInputByIdx(doc, elementMap, idx, value) ==
    IF idx \notin DOMAIN elementMap THEN [doc |-> doc, ret |-> FALSE]
    ELSE IF WriteThrows(doc[elementMap[idx]], value)
         THEN [doc |-> doc, ret |-> FALSE]
    ELSE [doc |-> [doc EXCEPT ![elementMap[idx]].value = value,
                              ![elementMap[idx]].filled = TRUE],
          ret |-> TRUE]

\* The body of the for loop, r being the result of fillInputByIdx.
countMapping(c, mapping, r) ==
    [c EXCEPT !.doc = r.doc,
              !.calls = Append(@, [idx |-> mapping.idx,
                                   value |-> mapping.value, ret |-> r.ret,
                                   wrote |-> r.doc # c.doc]),
              !.response.results.successful = IF r.ret THEN @ + 1 ELSE @,
              !.response.results.failed = IF r.ret THEN @ ELSE @ + 1]

\* The loop leaving at the first mapping that fails.
RECURSIVE forOfMappings_stopAtFailure(_, _, _)
forOfMappings_stopAtFailure(c, mappings, k) ==
    IF k > Len(mappings) THEN c
    ELSE IF ~ fillInputByIdx(c.doc, c.elementMap, mappings[k].idx,
                             mappings[k].value).ret
         THEN countMapping(c, mappings[k],
                 fillInputByIdx(c.doc, c.elementMap, mappings[k].idx,
                                mappings[k].value))
    ELSE forOfMappings_stopAtFailure(
            countMapping(c, mappings[k],
                fillInputByIdx(c.doc, c.elementMap, mappings[k].idx,
                               mappings[k].value)),
            mappings, k + 1)

\* for (const mapping of mappings) { ... }
RECURSIVE forOfMappings(_, _, _)
forOfMappings(c, mappings, k) ==
    IF k > Len(mappings) THEN c
    ELSE forOfMappings(
            countMapping(c, mappings[k],
                fillInputByIdx(c.doc, c.elementMap, mappings[k].idx,
                               mappings[k].value)),
            mappings, k + 1)

\* The notifications after the loop.
notify(c) ==
    [c EXCEPT !.notifications =
        @ \o (IF c.response.results.successful > 0 THEN <<"success">>
              ELSE <<>>)
          \o (IF c.response.results.failed > 0 THEN <<"warning">>
              ELSE <<>>)]

\* handleFillForms on an array of mappings.
handleFillForms(c, mappings) ==
    notify(forOfMappings(
        [c EXCEPT !.handled = TRUE, !.isArray = TRUE, !.mappings = mappings,
                  !.response = Response(TRUE, {},
                                        [NoResults EXCEPT
                                            !.total = Len(mappings)], "")],
        mappings, 1))

\* handleFillForms on anything else: the throw is caught.
handleFillFormsInvalid(c) ==
    [c EXCEPT !.handled = TRUE, !.isArray = FALSE,
              !.notifications = Append(@, "error"),
              !.response = Response(FALSE, {}, NoResults,
                                    "Invalid mappings data")]

\* The idx of a mapping: one never issued (0), the ones a first scan issues
\* and the first one a second scan issues.
Idxs == 0..(MaxElements + 1)

BatchMappings == [idx : Idxs, value : {"v"}]

Batches == ListsUpTo(BatchMappings, MaxBatch)

ContentInit ==
    /\ content \in {[NoContent EXCEPT !.doc = d] : d \in Docs}
    /\ IdleCache /\ IdleForm /\ IdleObserver /\ IdleValidator /\ IdlePipeline
    /\ IdleFlow /\ IdleStandalone /\ IdleIndexer /\ IdleInjector
    /\ IdleDomObserver /\ IdleHighlight /\ IdleBackground

\* A GET_FORM_DATA message.
GetFormData ==
    /\ ~ content.handled
    /\ content.scans < MaxScans
    /\ content' = handleGetFormData(indexAllInputs(content))

\* A FILL_FORMS message with an array of mappings.
FillForms(mappings) ==
    /\ ~ content.handled
    /\ content' = handleFillForms(content, mappings)

\* A FILL_FORMS message without an array of mappings.
FillFormsInvalid ==
    /\ ~ content.handled
    /\ content' = handleFillFormsInvalid(content)

\* Any other message.
UnknownAction ==
    /\ ~ content.handled
    /\ content' = [content EXCEPT !.handled = TRUE,
                      !.response = Response(FALSE, {}, NoResults,
                                            "Unknown action")]

ContentNext ==
    /\ \/ GetFormData
       \/ \E mappings \in Batches : FillForms(mappings)
       \/ FillFormsInvalid
       \/ UnknownAction
    /\ UNCHANGED notContentVars

SpecContent == ContentInit /\ [][ContentNext]_vars

\* C1: once handleFillForms has answered a message carrying an array of
\* mappings, fillInputByIdx has been called for every mapping in order, the
\* result reported has total = mappings.length and successful + failed =
\* total, failed counts the calls that returned false, and every mapping
\* with an unknown idx or a write that throws is among them.
C1_BatchCounted ==
    (content.handled /\ content.isArray) =>
        /\ content.response.success
        /\ content.response.results.total = Len(content.mappings)
        /\ content.response.results.successful
             + content.response.results.failed
             = content.response.results.total
        /\ Len(content.calls) = Len(content.mappings)
        /\ \A k \in DOMAIN content.calls :
              /\ content.calls[k].idx = content.mappings[k].idx
              /\ content.calls[k].value = content.mappings[k].value
              /\ (\/ content.mappings[k].idx \notin DOMAIN content.elementMap
                  \/ WriteThrows(
                        content.doc[content.elementMap[content.mappings[k].idx]],
                        content.mappings[k].value))
                   => ~ content.calls[k].ret
        /\ content.response.results.failed
             = Cardinality({k \in DOMAIN content.calls : ~ content.calls[k].ret})

\* A batch in which a mapping with an unknown idx and a mapping whose write
\* throws are followed by a mapping that is written.
C1_Witness ==
    /\ content.handled /\ content.isArray
    /\ \E i, j, k \in DOMAIN content.calls :
          /\ i < k /\ j < k
          /\ content.mappings[i].idx \notin DOMAIN content.elementMap
          /\ content.mappings[j].idx \in DOMAIN content.elementMap
          /\ ~ content.calls[j].ret
          /\ content.calls[k].ret

\* C22: after an indexAllInputs call, every idx of the list it returned is
\* in elementMap and names an element of the document, two entries of the
\* list have different idx values and name different elements, and every
\* element of the document is named by exactly one entry.
C22_IdxNamesOneElement ==
    content.scans > 0 =>
       /\ \A k \in DOMAIN content.currentElements :
             /\ content.currentElements[k] \in DOMAIN content.elementMap
             /\ content.elementMap[content.currentElements[k]]
                   \in DOMAIN content.doc
       /\ \A j, k \in DOMAIN content.currentElements :
             j # k =>
                /\ content.currentElements[j] # content.currentElements[k]
                /\ content.elementMap[content.currentElements[j]]
                      # content.elementMap[content.currentElements[k]]
       /\ \A e \in DOMAIN content.doc :
             Cardinality({k \in DOMAIN content.currentElements :
                content.elementMap[content.currentElements[k]] = e}) = 1

\* A second scan of a page with an input inside a dialog and one outside,
\* followed by a batch that wrote the input of the dialog.
C22_Witness ==
    /\ content.scans = 2 /\ content.handled
    /\ Len(content.currentElements) >= 2
    /\ \E e \in DOMAIN content.doc : ~ content.doc[e].dialog
    /\ \E k \in DOMAIN content.calls :
          /\ content.calls[k].ret
          /\ content.doc[content.elementMap[content.calls[k].idx]].dialog

\* The idx values that the scans before the latest one issued.
EarlierIdxs(c) == 1..(c.uuids - Len(c.currentElements))

\* C23: elementMap holds the idx values of the latest scan and no other,
\* and a fillInputByIdx call with an idx of an earlier scan returns false
\* and writes nothing.
C23_EarlierIdxNeverResolves ==
    /\ DOMAIN content.elementMap =
          {content.currentElements[k] : k \in DOMAIN content.currentElements}
    /\ \A k \in DOMAIN content.calls :
          content.calls[k].idx \in EarlierIdxs(content) =>
             ~ content.calls[k].ret /\ ~ content.calls[k].wrote

\* After two scans, a batch with an idx of the first scan, which failed,
\* and an idx of the second, which was written.
C23_Witness ==
    /\ content.scans = 2 /\ content.handled
    /\ \E j, k \in DOMAIN content.calls :
          /\ content.calls[j].idx \in EarlierIdxs(content)
          /\ ~ content.calls[j].ret
          /\ content.calls[k].idx \in DOMAIN content.elementMap
          /\ content.calls[k].ret /\ content.calls[k].wrote

(***************************************************************************)
(* The highlight of a filled field: fillInputByIdx and applyFilledStyle    *)
(* (domUtils.ts) on text inputs, with the timers that take the highlight   *)
(* off.  An attribute is [present, text], text being a sequence of         *)
(* tokens: "c" for a declaration of the page, "F" for FILLED_FIELD_STYLE   *)
(* and " ".  highlight is                                                  *)
(*   doc:     the elements: value, style and                               *)
(*            data-quickfill-original-style (saved)                        *)
(*   timers:  for each element, the pending 3-second timers                *)
(*   fills:   the fillInputByIdx calls made                                *)
(*   first:   history: the style of each element before its first fill     *)
(*   filled:  history: the elements filled so far                          *)
(***************************************************************************)
MaxStyleFills == 3

Absent == [present |-> FALSE, text |-> <<>>]
Attr(text) == [present |-> TRUE, text |-> text]

\* element.getAttribute(name) || ""
getAttributeOrEmpty(attr) == IF attr.present THEN attr.text ELSE <<>>

\* applyFilledStyle up to the setTimeout.
applyFilledStyle(el) ==
    [el EXCEPT !.saved = Attr(getAttributeOrEmpty(el.style)),
               !.style = Attr(getAttributeOrEmpty(el.style)
                                 \o <<" ", "F">>)]

\* The callback of the timer of applyFilledStyle.
removeHighlight(el) ==
    IF el.saved.present
    THEN [el EXCEPT !.style = Attr(el.saved.text), !.saved = Absent]
    ELSE el

StyledElements ==
    {[value |-> <<>>, style |-> style, saved |-> Absent] :
        style \in {Absent, Attr(<<>>), Attr(<<"c">>)}}

StyledDocs == UNION {[1..n -> StyledElements] : n \in 1..MaxElements}

HighlightInit ==
    /\ highlight \in {[doc |-> doc, timers |-> [e \in DOMAIN doc |-> 0],
                       fills |-> 0,
                       first |-> [e \in DOMAIN doc |-> doc[e].style],
                       filled |-> {}] : doc \in StyledDocs}
    /\ IdleCache /\ IdleForm /\ IdleContent /\ IdleObserver /\ IdleValidator
    /\ IdlePipeline /\ IdleFlow /\ IdleStandalone /\ IdleIndexer
    /\ IdleInjector /\ IdleDomObserver /\ IdleBackground

\* fillInputByIdx(idx, value) for the idx of element e: the value, the two
\* events, applyFilledStyle and its timer.
FillStyled(e) ==
    /\ highlight.fills < MaxStyleFills
    /\ highlight' = [highlight EXCEPT
          !.doc[e] = applyFilledStyle([@ EXCEPT !.value = <<"v">>]),
          !.timers[e] = @ + 1,
          !.fills = @ + 1,
          !.filled = @ \cup {e}]

\* A 3-second timer of element e fires.
HighlightTimerFires(e) ==
    /\ highlight.timers[e] > 0
    /\ highlight' = [highlight EXCEPT
          !.doc[e] = removeHighlight(@),
          !.timers[e] = @ - 1]

HighlightNext ==
    /\ \E e \in DOMAIN highlight.doc :
          \/ FillStyled(e)
          \/ HighlightTimerFires(e)
    /\ UNCHANGED notHighlightVars

SpecHighlight == HighlightInit /\ [][HighlightNext]_vars

\* C24: once every pending timer of a filled element has fired, its style
\* attribute has the text it had before the first fill (an absent
\* attribute counting as an empty one) and the attribute
\* data-quickfill-original-style is absent.
C24_HighlightIsTransient ==
    \A e \in highlight.filled :
       highlight.timers[e] = 0 =>
          /\ getAttributeOrEmpty(highlight.doc[e].style)
                = getAttributeOrEmpty(highlight.first[e])
          /\ ~ highlight.doc[e].saved.present

(***************************************************************************)
(* The settings handler of the background script: handleUpdateSettings     *)
(* (background/index.ts) with the two storage writes it awaits.  Handlers  *)
(* of several messages interleave at their awaits.  background is          *)
(*   updates:   the UPDATE_SETTINGS messages received                      *)
(*   handlers:  for each message, the settings it carries, where its       *)
(*              handler stands ("saving": awaiting saveSettings,           *)
(*              "logging": awaiting addLogEntry, "done"), whether the      *)
(*              settings were saved and the sendResponse calls made        *)
(*   stored:    the settings in chrome.storage.sync                        *)
(***************************************************************************)
MaxUpdates == 3

SettingsToSave == {"a", "b"}

\* How an awaited storage write settles.
Settlements == {"resolved", "rejected"}

\* sendResponse(response)
sendResponse(h, success) ==
    [h EXCEPT !.responses = Append(@, [success |-> success])]

\* handleUpdateSettings up to `await saveSettings(settings)`.
handleUpdateSettings(settings) ==
    [settings |-> settings, at |-> "saving", saved |-> FALSE,
     responses |-> <<>>]

\* handleUpdateSettings from the settling of saveSettings to
\* `await addLogEntry(...)`, or through the catch block.
afterSaveSettings(h, settled) ==
    IF settled = "resolved"
    THEN [sendResponse(h, TRUE) EXCEPT !.saved = TRUE, !.at = "logging"]
    ELSE [sendResponse(h, FALSE) EXCEPT !.at = "done"]

\* handleUpdateSettings from the settling of addLogEntry on.
afterAddLogEntry(h, settled) ==
    IF settled = "resolved"
    THEN [h EXCEPT !.at = "done"]
    ELSE [sendResponse(h, FALSE) EXCEPT !.at = "done"]

BackgroundInit ==
    /\ background = [updates |-> 0, handlers |-> <<>>, stored |-> "none"]
    /\ IdleCache /\ IdleForm /\ IdleContent /\ IdleObserver /\ IdleValidator
    /\ IdlePipeline /\ IdleFlow /\ IdleStandalone /\ IdleIndexer
    /\ IdleInjector /\ IdleDomObserver /\ IdleHighlight

\* The listener receives {action: UPDATE_SETTINGS, settings}.
ReceiveUpdateSettings(settings) ==
    /\ background.updates < MaxUpdates
    /\ background' = [background EXCEPT
          !.updates = @ + 1,
          !.handlers = Append(@, handleUpdateSettings(settings))]

\* chrome.storage.sync.set of handler m settles.
SaveSettingsSettles(m, settled) ==
    /\ background.handlers[m].at = "saving"
    /\ background' = [background EXCEPT
          !.handlers[m] = afterSaveSettings(@, settled),
          !.stored = IF settled = "resolved"
                     THEN background.handlers[m].settings ELSE @]

\* The log write of handler m settles.
AddLogEntrySettles(m, settled) ==
    /\ background.handlers[m].at = "logging"
    /\ background' = [background EXCEPT
          !.handlers[m] = afterAddLogEntry(@, settled)]

BackgroundNext ==
    /\ \/ \E settings \in SettingsToSave : ReceiveUpdateSettings(settings)
       \/ \E m \in DOMAIN background.handlers, settled \in Settlements :
             \/ SaveSettingsSettles(m, settled)
             \/ AddLogEntrySettles(m, settled)
    /\ UNCHANGED notBackgroundVars

SpecBackground == BackgroundInit /\ [][BackgroundNext]_vars

\* C28: handleUpdateSettings never calls sendResponse a second time, and
\* when it has ended it has called it once, with success = true exactly
\* when the settings were saved, whether the log write was resolved or
\* rejected.
C28_OneAnswerPerUpdate ==
    \A m \in DOMAIN background.handlers :
       /\ Len(background.handlers[m].responses) <= 1
       /\ background.handlers[m].at = "done" =>
             /\ Len(background.handlers[m].responses) = 1
             /\ background.handlers[m].responses[1].success
                   = background.handlers[m].saved

\* What a run of the pipeline meets: whether the extraction and the mapping
\* are answered by the cache, and whether each yields anything.
PipelineOutcomes ==
    [extractionCached : BOOLEAN, fields : BOOLEAN,
     mappingCached : BOOLEAN, values : BOOLEAN]

\* processHTMLWithGPT, processFormWithGPT and fillFormWithMappings as run by
\* FormProcessor.scanForForms and FormProcessor.processForm: the extraction,
\* then the mapping if fields were extracted, then the fill if values came.
runPipeline(o, out) ==
    [o EXCEPT !.scans = @ + 1,
              !.requests = @ + (IF out.extractionCached THEN 0 ELSE 1)
                             + (IF out.fields /\ ~ out.mappingCached
                                THEN 1 ELSE 0),
              !.writes = @ + (IF out.fields /\ out.values THEN 1 ELSE 0)]

\* setupDynamicFormObserver
setupDynamicFormObserver(o) ==
    IF ~ o.processor \/ ~ o.settings.enabled \/ ~ o.settings.apiKey
       \/ ~ o.settings.contextData
    THEN o
    ELSE [o EXCEPT !.created = TRUE, !.startPending = TRUE]

\* DOMObserver.startObserving
startObserving(o) == [o EXCEPT !.observing = TRUE]

\* The MutationObserver callback; relevant: an added node is or holds a
\* form or an input.
mutationCallback(o, relevant) ==
    IF relevant THEN [o EXCEPT !.timers = @ + 1] ELSE o

\* A callback that rescans the page.
onNewFormsDetected_scan(o, out) ==
    runPipeline([o EXCEPT !.callbacks = TRUE], out)

\* The callback handed to DOMObserver: it logs.
onNewFormsDetected(o, out) == [o EXCEPT !.callbacks = TRUE]

\* scanForForms of the content script and of FormProcessor.
scanForForms(o, out) ==
    IF ~ o.processor THEN o
    ELSE IF ~ o.settings.enabled \/ ~ o.settings.apiKey
            \/ ~ o.settings.contextData
         THEN o
    ELSE runPipeline(o, out)

\* handleProcessFormRequest; found: the form of the message is in the
\* document and visible.  Without formProcessor the call throws and the
\* catch answers.
handleProcessFormRequest(o, found, out) ==
    IF ~ found \/ ~ o.processor THEN o ELSE runPipeline(o, out)

Event(o, name) == [o EXCEPT !.last = name]

Handled(o, name) == [o EXCEPT !.last = name, !.messages = @ + 1]

ObserverInit ==
    /\ observer = NoObserver
    /\ IdleCache /\ IdleForm /\ IdleContent /\ IdleValidator /\ IdlePipeline
    /\ IdleFlow /\ IdleStandalone /\ IdleIndexer /\ IdleInjector
    /\ IdleDomObserver /\ IdleHighlight /\ IdleBackground

\* The load event: the listener is installed.
Load ==
    /\ ~ observer.listening
    /\ observer' = Event([observer EXCEPT !.listening = TRUE], "load")

\* chrome.storage.sync.get answers with the stored settings.
SettingsLoaded(items) ==
    /\ observer.listening /\ observer.last = "load"
    /\ observer' = Event(
          IF items.enabled
          THEN setupDynamicFormObserver(
                  [observer EXCEPT !.processor = TRUE, !.settings = items])
          ELSE [observer EXCEPT !.processor = TRUE, !.settings = items],
          "settings")

\* The 1500 ms timer of setupDynamicFormObserver.
StartObserving ==
    /\ observer.startPending
    /\ observer' = Event(
          startObserving([observer EXCEPT !.startPending = FALSE]),
          "start")

\* The page changes its DOM.
Mutation(relevant) ==
    /\ observer.timers < MaxTimers
    /\ observer' = Event(IF observer.observing
                         THEN mutationCallback(observer, relevant)
                         ELSE observer,
                         "mutation")

\* A 500 ms timer fires.
TimerFires(out) ==
    /\ observer.timers > 0
    /\ observer' = Event(
          onNewFormsDetected([observer EXCEPT !.timers = @ - 1], out),
          "callback")

\* The message listener.
FillFormsMessage(out) ==
    /\ observer.listening /\ observer.messages < MaxMessages
    /\ observer' = Handled(scanForForms(observer, out), "fillForms")

ProcessFormMessage(found, out) ==
    /\ observer.listening /\ observer.messages < MaxMessages
    /\ observer' = Handled(handleProcessFormRequest(observer, found, out),
                           "processForm")

UpdateSettingsMessage(settings) ==
    /\ observer.listening /\ observer.messages < MaxMessages
    /\ observer' = Handled([observer EXCEPT !.processor = TRUE,
                                            !.settings = settings],
                           "updateSettings")

GetFormDataMessage ==
    /\ observer.listening /\ observer.messages < MaxMessages
    /\ observer' = Handled([observer EXCEPT !.collected = @ + 1],
                           "getFormData")

ObserverNext ==
    /\ \/ Load
       \/ \E items \in SettingsValues : SettingsLoaded(items)
       \/ StartObserving
       \/ \E relevant \in BOOLEAN : Mutation(relevant)
       \/ \E out \in PipelineOutcomes : TimerFires(out)
       \/ \E out \in PipelineOutcomes : FillFormsMessage(out)
       \/ \E found \in BOOLEAN, out \in PipelineOutcomes :
             ProcessFormMessage(found, out)
       \/ \E settings \in SettingsValues : UpdateSettingsMessage(settings)
       \/ GetFormDataMessage
    /\ UNCHANGED notObserverVars

SpecObserver == ObserverInit /\ [][ObserverNext]_vars

MaxLifecycleCalls == 5

\* DOMObserver.stopObserving: disconnect() and this.observer = null.  The
\* timers that the callback has set are not cleared.
stopObserving(o) == [o EXCEPT !.observing = FALSE]

\* new DOMObserver(onNewFormsDetected)
DomObserverInit ==
    /\ domObserver = [observing |-> FALSE, timers |-> 0, invoked |-> 0,
                      stopped |-> FALSE, calls |-> 0, last |-> "new"]
    /\ IdleCache /\ IdleForm /\ IdleContent /\ IdleObserver /\ IdleValidator
    /\ IdlePipeline /\ IdleFlow /\ IdleStandalone /\ IdleIndexer
    /\ IdleInjector /\ IdleHighlight /\ IdleBackground

DomStartObserving ==
    /\ domObserver.calls < MaxLifecycleCalls
    /\ domObserver' = [startObserving(domObserver)
                          EXCEPT !.stopped = FALSE, !.calls = @ + 1,
                                 !.last = "startObserving"]

DomStopObserving ==
    /\ domObserver.calls < MaxLifecycleCalls
    /\ domObserver' = [stopObserving(domObserver)
                          EXCEPT !.stopped = TRUE, !.calls = @ + 1,
                                 !.last = "stopObserving"]

\* The page adds nodes; a connected MutationObserver runs its callback.
DomMutation(relevant) ==
    /\ domObserver.timers + domObserver.invoked < MaxTimers
    /\ domObserver' = [(IF domObserver.observing
                        THEN mutationCallback(domObserver, relevant)
                        ELSE domObserver)
                          EXCEPT !.last = "mutation"]

\* A 500 ms timer fires: onNewFormsDetected runs.
DomTimerFires ==
    /\ domObserver.timers > 0
    /\ domObserver' = [domObserver EXCEPT !.timers = @ - 1,
                                          !.invoked = @ + 1,
                                          !.last = "timer"]

DomObserverNext ==
    /\ \/ DomStartObserving
       \/ DomStopObserving
       \/ \E relevant \in BOOLEAN : DomMutation(relevant)
       \/ DomTimerFires
    /\ UNCHANGED notDomObserverVars

SpecDomObserver == DomObserverInit /\ [][DomObserverNext]_vars

\* C29: from the return of stopObserving until the next startObserving
\* call, onNewFormsDetected is not invoked.
C29_NoCallbackAfterStop ==
    [][domObserver.stopped /\ domObserver'.stopped
          => domObserver'.invoked = domObserver.invoked]_vars

(***************************************************************************)
(* Model replies and the validators that read them (gptUtils.ts,           *)
(* gptProcessor.js, part_009).                                             *)
(*                                                                         *)
(* A JSON value is a record with a kind: null, a string, a number, an      *)
(* object (props: property name -> value) or an array (items).  The text   *)
(* of a reply is a sequence of tokens: prose, a code fence, the brackets   *)
(* of an array, the braces of an object with the one property "mappings",  *)
(* and complete scalar or object values.  White space and the commas       *)
(* between the elements of an array are not represented.                   *)
(***************************************************************************)
MaxItems == 2

Undefined == [kind |-> "undefined"]
JNull == Null
JString(s) == [kind |-> "string", text |-> s]
JNumber == [kind |-> "number", text |-> "7"]
JObject(props) == [kind |-> "object", props |-> props]
JArray(items) == [kind |-> "array", items |-> items]

Punct(s) == [kind |-> "punct", text |-> s]
Prose == Punct("w")
\* The fence of a code block, with or without the word json.
Fence == Punct("fence")
ArrayOpen == Punct("[")
ArrayClose == Punct("]")
MappingsOpen == Punct("{mappings:")
ObjectClose == Punct("}")

\* o[name] for a value that is neither null nor undefined.
Prop(o, name) ==
    IF o.kind = "object" /\ name \in DOMAIN o.props THEN o.props[name]
    ELSE Undefined

\* Reading a property of null or undefined throws a TypeError.
NoProps(o) == o.kind \in {"null", "undefined"}

\* !v
Falsy(v) ==
    \/ v.kind \in {"null", "undefined"}
    \/ v.kind = "string" /\ v.text = ""
    \/ v.kind = "number" /\ v.text = "0"
    \/ v.kind = "boolean" /\ v.text = "false"

\* v || d
OrElse(v, d) == IF Falsy(v) THEN d ELSE v

Array_isArray(v) == v.kind = "array"

NoParse == [ok |-> FALSE, value |-> Undefined, next |-> 0]

RECURSIVE parseValue(_, _)
RECURSIVE parseElements(_, _, _)

\* The value of the mappings property once read: the closing brace.
parseMember(t, v) ==
    IF v.ok /\ v.next <= Len(t) /\ t[v.next] = ObjectClose
    THEN [ok |-> TRUE, value |-> JObject([mappings |-> v.value]),
          next |-> v.next + 1]
    ELSE NoParse

\* An element of an array once read: the rest of the array.
parseElement(t, acc, v) ==
    IF v.ok THEN parseElements(t, v.next, Append(acc, v.value)) ELSE NoParse

parseElements(t, i, acc) ==
    IF i > Len(t) THEN NoParse
    ELSE IF t[i] = ArrayClose
         THEN [ok |-> TRUE, value |-> JArray(acc), next |-> i + 1]
    ELSE parseElement(t, acc, parseValue(t, i))

\* The JSON value that starts at token i and the position after it.
parseValue(t, i) ==
    IF i > Len(t) THEN NoParse
    ELSE IF t[i].kind # "punct"
         THEN [ok |-> TRUE, value |-> t[i], next |-> i + 1]
    ELSE IF t[i] = ArrayOpen THEN parseElements(t, i + 1, <<>>)
    ELSE IF t[i] = MappingsOpen THEN parseMember(t, parseValue(t, i + 1))
    ELSE NoParse

wholeText(t, v) == IF v.ok /\ v.next = Len(t) + 1 THEN v ELSE NoParse

\* JSON.parse: ok is FALSE where it throws a SyntaxError.
JSON_parse(t) == wholeText(t, parseValue(t, 1))

Positions(t, tok) == {i \in 1..Len(t) : t[i] = tok}

Min(S) == CHOOSE x \in S : \A y \in S : x <= y
Max(S) == CHOOSE x \in S : \A y \in S : x >= y

\* content.match(/\[[\s\S]*\]/): from the first "[" to the last "]" that
\* follows it; found is FALSE where match returns null.
matchArray(t) ==
    IF Positions(t, ArrayOpen) = {} THEN [found |-> FALSE, text |-> <<>>]
    ELSE IF \A j \in Positions(t, ArrayClose) :
               j < Min(Positions(t, ArrayOpen))
         THEN [found |-> FALSE, text |-> <<>>]
    ELSE [found |-> TRUE,
          text |-> SubSeq(t, Min(Positions(t, ArrayOpen)),
                          Max(Positions(t, ArrayClose)))]

\* The capture of the code block pattern in jsonText.match: what stands
\* between the first fence and the next one.
matchCodeBlock(t) ==
    IF Cardinality(Positions(t, Fence)) < 2
    THEN [found |-> FALSE, text |-> <<>>]
    ELSE [found |-> TRUE,
          text |-> SubSeq(t, Min(Positions(t, Fence)) + 1,
                          Min(Positions(t, Fence)
                              \ {Min(Positions(t, Fence))}) - 1)]

\* A validator returns a list or throws.
Returns(list) == [threw |-> FALSE, mappings |-> list]
Throws == [threw |-> TRUE, mappings |-> <<>>]

\* A response of the completion API: content is
\* choices?.[0]?.message?.content, hasContent is FALSE where it is undefined.
NoReply == [ok |-> FALSE, hasContent |-> FALSE, content |-> <<>>]

\* !content
NoContentIn(response) == ~ response.hasContent \/ response.content = <<>>

\* ---- parseGPTResponse (gptUtils.ts) ----
validIds(elements) == {elements[i].idx : i \in DOMAIN elements}

\* data.mappings.filter(...): reading idx of a null element throws.
filterByIdx(list, elements) ==
    IF \E i \in DOMAIN list : NoProps(list[i]) THEN Returns(<<>>)
    ELSE Returns(SelectSeq(list, LAMBDA mapping :
            /\ Prop(mapping, "idx").kind = "string"
            /\ Prop(mapping, "idx").text \in validIds(elements)
            /\ Prop(mapping, "value").kind = "string"))

checkStructure(data, elements) ==
    IF ~ data.ok THEN Returns(<<>>)
    ELSE IF NoProps(data.value) THEN Returns(<<>>)
    ELSE IF ~ Array_isArray(Prop(data.value, "mappings")) THEN Returns(<<>>)
    ELSE filterByIdx(Prop(data.value, "mappings").items, elements)

parseJsonText(block, t, elements) ==
    checkStructure(JSON_parse(IF block.found THEN block.text ELSE t),
                   elements)

\* responseText is undefined where the response carries no content; trim()
\* then throws inside the try.
parseGPTResponse(response, elements) ==
    IF ~ response.hasContent THEN Returns(<<>>)
    ELSE parseJsonText(matchCodeBlock(response.content), response.content,
                       elements)

\* ---- processGPTResponse (part_009) ----
validElementIds(formElements) ==
    ({formElements[i].id : i \in DOMAIN formElements}
       \cup {formElements[i].name : i \in DOMAIN formElements}) \ {""}

\* validElementIds.get(htmlElementId): set() keeps the last element per key,
\* an id or a name.
elementFor(formElements, key) ==
    formElements[Max({i \in DOMAIN formElements :
                        key \in {formElements[i].id, formElements[i].name}})]

\* Elements of the model are text inputs and checkboxes; the select, number
\* and date branches are not reached.
isValidValueForElement(value, element) ==
    IF value.kind \in {"null", "undefined"} THEN FALSE
    ELSE IF element.type \in {"checkbox", "radio"}
         THEN \/ value.kind = "boolean"
              \/ value.kind = "string" /\ value.text \in {"true", "false"}
    ELSE value.kind = "string"

keepMapping(mapping, formElements) ==
    /\ Prop(mapping, "htmlElementId").kind = "string"
    /\ Prop(mapping, "htmlElementId").text \in validElementIds(formElements)
    /\ isValidValueForElement(
          Prop(mapping, "value"),
          elementFor(formElements, Prop(mapping, "htmlElementId").text))

\* mappings.filter(...): destructuring a null element throws.
filterById(mappings, formElements) ==
    IF ~ mappings.ok THEN Throws
    ELSE IF ~ Array_isArray(mappings.value) THEN Throws
    ELSE IF \E i \in DOMAIN mappings.value.items :
               NoProps(mappings.value.items[i])
         THEN Throws
    ELSE Returns(SelectSeq(mappings.value.items,
                           LAMBDA mapping : keepMapping(mapping, formElements)))

parseMatch(jsonMatch, formElements) ==
    IF ~ jsonMatch.found THEN Throws
    ELSE filterById(JSON_parse(jsonMatch.text), formElements)

processGPTResponse(response, formElements) ==
    IF NoContentIn(response) THEN Throws
    ELSE parseMatch(matchArray(response.content), formElements)

\* ---- processGPTMappingResponse (gptProcessor.js) ----
toLegacyMapping(mapping) ==
    JObject([htmlElementId |-> OrElse(Prop(mapping, "id"), JString("")),
             value |-> OrElse(Prop(mapping, "value"), JString("")),
             label |-> OrElse(Prop(mapping, "label"), JString("")),
             formId |-> OrElse(Prop(mapping, "formId"), JString("")),
             type |-> OrElse(Prop(mapping, "type"), JString(""))])

\* mappings.map(...): reading id of a null element throws.
mapAll(list) ==
    IF \E i \in DOMAIN list : NoProps(list[i]) THEN Throws
    ELSE Returns([i \in DOMAIN list |-> toLegacyMapping(list[i])])

convertParsed(mappings, formElements) ==
    IF ~ mappings.ok THEN Returns(<<>>)
    ELSE IF ~ Array_isArray(mappings.value) THEN mapAll(<<>>)
    ELSE mapAll(mappings.value.items)

convertMatch(jsonMatch, formElements) ==
    IF ~ jsonMatch.found THEN mapAll(<<>>)
    ELSE convertParsed(JSON_parse(jsonMatch.text), formElements)

processGPTMappingResponse(response, formElements) ==
    IF NoContentIn(response) THEN Returns(<<>>)
    ELSE convertMatch(matchArray(response.content), formElements)

\* ---- processGPTFieldExtractionResponse (gptProcessor.js) ----
fieldsOf(fields) ==
    IF ~ fields.ok THEN Returns(<<>>)
    ELSE IF Array_isArray(fields.value) THEN Returns(fields.value.items)
    ELSE Returns(<<>>)

fieldsMatch(jsonMatch) ==
    IF ~ jsonMatch.found THEN Returns(<<>>)
    ELSE fieldsOf(JSON_parse(jsonMatch.text))

processGPTFieldExtractionResponse(response) ==
    IF NoContentIn(response) THEN Throws
    ELSE fieldsMatch(matchArray(response.content))

\* The fields the validators are given: FormElement of the idx pipeline
\* (idx) and the extracted fields of the scan pipeline (id, name, type).
FieldA == [idx |-> "a", id |-> "a", name |-> "", type |-> "text"]
FieldB == [idx |-> "b", id |-> "", name |-> "b", type |-> "checkbox"]

FieldLists == {<<>>, <<FieldA>>, <<FieldA, FieldB>>}

\* An object of a reply: the identifier under one of the property names the
\* prompts ask for, and a value.
MakeItem(key, ident, value) ==
    JObject([n \in {key, "value"} |-> IF n = key THEN JString(ident)
                                      ELSE value])

Items ==
    {MakeItem(key, ident, value) :
        key \in {"idx", "htmlElementId", "id"}, ident \in {"a", "b", "z"},
        value \in {JString("v"), JNumber}}
      \cup {JNull}

bare(list) == <<ArrayOpen>> \o list \o <<ArrayClose>>
wrapped(list) == <<MappingsOpen>> \o bare(list) \o <<ObjectClose>>
fenced(list) == <<Prose, Fence>> \o wrapped(list) \o <<Fence>>
explained(list) == <<Prose>> \o bare(list) \o <<Prose>>

\* Replies without a JSON array, with one that does not parse, with two
\* arrays and with a nested one.
OddTexts ==
    {<<>>, <<Prose, Prose>>, <<ArrayOpen, Prose, ArrayClose>>,
     <<MappingsOpen, JNull, ObjectClose>>, <<JNull>>,
     bare(<<MakeItem("id", "a", JString("v"))>>)
        \o <<Prose>> \o bare(<<MakeItem("id", "a", JString("v"))>>),
     bare(bare(<<MakeItem("id", "a", JString("v"))>>))}

\* The texts that hold an array of at most n items, and the odd ones.
Texts(n) ==
    UNION {{bare(list), wrapped(list), fenced(list), explained(list)} :
             list \in ListsUpTo(Items, n)}
      \cup OddTexts

Reply(t) == [ok |-> TRUE, hasContent |-> TRUE, content |-> t]

Replies(n) == {Reply(t) : t \in Texts(n)} \cup {[NoReply EXCEPT !.ok = TRUE]}

ValidatorInit ==
    /\ validation \in [response : Replies(MaxItems), formElements : FieldLists,
                       fn : {"none"}, ret : {Returns(<<>>)}]
    /\ IdleCache /\ IdleForm /\ IdleContent /\ IdleObserver /\ IdlePipeline
    /\ IdleFlow /\ IdleStandalone /\ IdleIndexer /\ IdleInjector
    /\ IdleDomObserver /\ IdleHighlight /\ IdleBackground

ParseGPTResponse ==
    validation' = [validation EXCEPT
        !.fn = "parseGPTResponse",
        !.ret = parseGPTResponse(validation.response,
                                 validation.formElements)]

ProcessGPTResponse ==
    validation' = [validation EXCEPT
        !.fn = "processGPTResponse",
        !.ret = processGPTResponse(validation.response,
                                   validation.formElements)]

ProcessGPTMappingResponse ==
    validation' = [validation EXCEPT
        !.fn = "processGPTMappingResponse",
        !.ret = processGPTMappingResponse(validation.response,
                                          validation.formElements)]

ValidatorNext ==
    /\ \/ ParseGPTResponse
       \/ ProcessGPTResponse
       \/ ProcessGPTMappingResponse
    /\ UNCHANGED notValidatorVars

SpecValidator == ValidatorInit /\ [][ValidatorNext]_vars

\* The identifiers of the fields handed to the validator.
KnownIdentifiers(fields) ==
    ({fields[i].idx : i \in DOMAIN fields}
       \cup {fields[i].id : i \in DOMAIN fields}
       \cup {fields[i].name : i \in DOMAIN fields}) \ {""}

\* The identifier a returned mapping names: idx in the idx pipeline,
\* htmlElementId in the scan pipeline.
NamedBy(mapping) ==
    IF Prop(mapping, "idx") # Undefined THEN Prop(mapping, "idx")
    ELSE Prop(mapping, "htmlElementId")

\* C9: every mapping a validator returns names an identifier of the fields
\* that were passed to it.
C9_ReturnedIdentifiersKnown ==
    validation.fn # "none" =>
       \A k \in DOMAIN validation.ret.mappings :
          /\ NamedBy(validation.ret.mappings[k]).kind = "string"
          /\ NamedBy(validation.ret.mappings[k]).text
                \in KnownIdentifiers(validation.formElements)

(***************************************************************************)
(* The completion pipelines of the scan generation (gptProcessor.js):      *)
(* processHTMLWithGPT over formStructureCache and processFormWithGPT over  *)
(* formFillCache.  A call that misses the cache stays pending between its  *)
(* request and the response; other calls and the clock move meanwhile.     *)
(* The clock counts hours.  pipeline is                                    *)
(*   formStructureCache, formFillCache: the two EnhancedCache objects      *)
(*   clock:    Date.now()                                                  *)
(*   pending:  the calls awaiting their response, each with its function,  *)
(*             its cache key and its formElements                          *)
(*   calls:    calls made so far                                           *)
(*   last:     the call made or the response handled last: whether a key  *)
(*             computed and which, whether a prompt was built and a        *)
(*             request sent, whether the call has returned and what        *)
(*   fills:    the processFormWithGPT calls that computed a key, in order  *)
(***************************************************************************)
MaxCalls == 2
\* createCacheKey hashes html.substring(0, 200) and createFormFillCacheKey
\* userData.substring(0, 100); the model scales both prefixes down.
HtmlPrefix == 2
ContextPrefix == 2
\* CACHE_SETTINGS, in hours.
DEFAULT_EXPIRATION == 1
FORM_EXPIRATION == 24

\* The characters of the strings the model hashes; any other string of the
\* model is one character long.
Chars(s) ==
    CASE s = "" -> <<>>
      [] s = "lm" -> <<"l", "m">>
      [] s = "text" -> <<"t", "e", "x", "t">>
      [] s = "checkbox" -> <<"c", "h", "e", "c", "k", "b", "o", "x">>
      [] OTHER -> <<s>>

\* String.prototype.charCodeAt for the characters of the model.
charCodeAt(ch) ==
    IF \E k \in 1..26 : LowerChars[k] = ch
    THEN 96 + (CHOOSE k \in 1..26 : LowerChars[k] = ch)
    ELSE IF \E k \in 1..26 : UpperChars[k] = ch
    THEN 64 + (CHOOSE k \in 1..26 : UpperChars[k] = ch)
    ELSE CASE ch = "," -> 44
           [] ch = "7" -> 55
           [] ch = "[" -> 91
           [] ch = "]" -> 93
           [] ch = "{" -> 123
           [] ch = "}" -> 125
           [] OTHER -> 32

\* A 32-bit integer as its two 16-bit halves.
ZeroHash == [hi |-> 0, lo |-> 0]

\* hashCode = (hashCode << 5) - hashCode + code; hashCode |= 0
\* that is 31 * hashCode + code modulo 2^32.
hashStep(hashCode, code) ==
    [lo |-> (31 * hashCode.lo + code) % 65536,
     hi |-> (31 * hashCode.hi + (31 * hashCode.lo + code) \div 65536) % 65536]

RECURSIVE hashLoop(_, _, _)
\* for (let i = 0; i < str.length; i++) ...: hashCode after the loop, for
\* the value hashCode it has before the character at position i.
hashLoop(str, i, hashCode) ==
    IF hashCode.lo >= 0 /\ i > Len(str) THEN hashCode
    ELSE hashLoop(str, i + 1, hashStep(hashCode, charCodeAt(str[i])))

\* String.prototype.substring(0, n)
substring0(str, n) == SubSeq(str, 1, IF Len(str) < n THEN Len(str) ELSE n)

RECURSIVE join(_, _)
\* Array.prototype.join
join(strs, sep) ==
    IF Len(strs) = 0 THEN <<>>
    ELSE IF Len(strs) = 1 THEN strs[1]
    ELSE strs[1] \o sep \o join(Tail(strs), sep)

\* The page HTML is a sequence of elements, each with its tag, the number of
\* inputs it holds and its outerHTML; the empty sequence is the empty string.
FormNode(outerHTML) == [tag |-> "form", inputs |-> 1, outerHTML |-> outerHTML]
EmptyFormNode == [tag |-> "form", inputs |-> 0, outerHTML |-> <<"e">>]
ScriptNode == [tag |-> "script", inputs |-> 0, outerHTML |-> <<"s">>]

\* cleanHTML keeps the forms that hold inputs (the pages of the model have
\* no input outside a form).
cleanHTML(html) ==
    join([i \in 1..Len(SelectSeq(html, LAMBDA node :
                  node.tag = "form" /\ node.inputs > 0)) |->
            SelectSeq(html, LAMBDA node :
                  node.tag = "form" /\ node.inputs > 0)[i].outerHTML],
         <<>>)

createCacheKey(url, html) ==
    <<url, hashLoop(substring0(html, HtmlPrefix), 1, ZeroHash)>>

\* JSON.stringify of {id, label, type, formId} of one element, without the
\* property names and the quotes, which are the same for every element.
stringifyInfo(el) ==
    <<"{">>
      \o Chars(OrElse(Prop(el, "id"), JString("")).text) \o <<",">>
      \o Chars(OrElse(Prop(el, "label"), JString("")).text) \o <<",">>
      \o Chars(OrElse(Prop(el, "type"), JString("")).text) \o <<",">>
      \o Chars(OrElse(Prop(el, "formId"), JString("")).text)
      \o <<"}">>

\* The free-text branch: callers never pass useStructuredData.
createFormFillCacheKey(formElements, userData) ==
    <<"form",
      hashLoop(<<"[">> \o join([i \in DOMAIN formElements |->
                                  stringifyInfo(formElements[i])], <<",">>)
                       \o <<"]">>,
               1, ZeroHash),
      "freetext",
      hashLoop(substring0(userData, ContextPrefix), 1, ZeroHash)>>

NoLast == [op |-> "none", fn |-> "none", keyed |-> FALSE, key |-> <<>>,
           prompt |-> FALSE, request |-> FALSE, settled |-> FALSE,
           ret |-> Returns(<<>>)]

NoPipeline == [formStructureCache |-> NewCache, formFillCache |-> NewCache,
               clock |-> 0, pending |-> <<>>, calls |-> 0, last |-> NoLast,
               fills |-> <<>>]

\* A call that ends before any key is computed.
unkeyed(p, fn, ret) ==
    [p EXCEPT !.calls = @ + 1,
              !.last = [NoLast EXCEPT !.op = "call", !.fn = fn,
                                      !.settled = TRUE, !.ret = ret]]

\* The cache after get(), and the call returning what get() found.
hit(p, fn, key, found) ==
    [p EXCEPT !.calls = @ + 1,
              !.formStructureCache =
                 IF fn = "processHTMLWithGPT" THEN found.c ELSE @,
              !.formFillCache =
                 IF fn = "processFormWithGPT" THEN found.c ELSE @,
              !.last = [NoLast EXCEPT !.op = "call", !.fn = fn,
                                      !.keyed = TRUE, !.key = key,
                                      !.settled = TRUE,
                                      !.ret = Returns(found.ret.items)]]

\* The cache after get(), the prompt built and the request sent.
miss(p, fn, key, found, formElements) ==
    [p EXCEPT !.calls = @ + 1,
              !.formStructureCache =
                 IF fn = "processHTMLWithGPT" THEN found.c ELSE @,
              !.formFillCache =
                 IF fn = "processFormWithGPT" THEN found.c ELSE @,
              !.pending = Append(@, [fn |-> fn, key |-> key,
                                     formElements |-> formElements]),
              !.last = [NoLast EXCEPT !.op = "call", !.fn = fn,
                                      !.keyed = TRUE, !.key = key,
                                      !.prompt = TRUE, !.request = TRUE]]

\* A lookup that goes to the model whatever the cache holds.
afterGet_alwaysRequest(p, fn, key, found, formElements) ==
    miss(p, fn, key, found, formElements)

\* if (cachedFields) return cachedFields; else the request.
afterGet(p, fn, key, found, formElements) ==
    IF found.ret # Null THEN hit(p, fn, key, found)
    ELSE miss(p, fn, key, found, formElements)

lookupStructure(p, key) ==
    afterGet(p, "processHTMLWithGPT", key,
             get(p.formStructureCache, key, p.clock), <<>>)

\* processHTMLWithGPT up to its return or its request.
processHTMLWithGPT(p, apiKey, html, url) ==
    IF ~ apiKey \/ html = <<>>
    THEN unkeyed(p, "processHTMLWithGPT", Throws)
    ELSE lookupStructure(p, createCacheKey(url, cleanHTML(html)))

lookupFill(p, key, formElements) ==
    afterGet(p, "processFormWithGPT", key,
             get(p.formFillCache, key, p.clock), formElements)

\* processFormWithGPT up to its return or its request; formElements is a
\* JSON value.  createFormFillCacheKey throws on a null element, inside the
\* try.
processFormWithGPT(p, apiKey, formElements, userConversation) ==
    IF ~ apiKey \/ ~ Array_isArray(formElements)
    THEN unkeyed(p, "processFormWithGPT", Returns(<<>>))
    ELSE IF trim(userConversation) = <<>>
    THEN unkeyed(p, "processFormWithGPT", Returns(<<>>))
    ELSE IF \E i \in DOMAIN formElements.items :
               NoProps(formElements.items[i])
    THEN unkeyed(p, "processFormWithGPT", Returns(<<>>))
    ELSE lookupFill(p,
                    createFormFillCacheKey(formElements.items,
                                           userConversation),
                    formElements.items)

\* What the validator returned, [] where it threw (the catch of the
\* pipeline).
caught(result) == IF result.threw THEN Returns(<<>>) ELSE result

\* fetchGPTResponse throws on a response that is not ok.
validated(call, response) ==
    IF ~ response.ok THEN Returns(<<>>)
    ELSE IF call.fn = "processHTMLWithGPT"
    THEN caught(processGPTFieldExtractionResponse(response))
    ELSE caught(processGPTMappingResponse(response, call.formElements))

\* The rest of a pending call once its response is there: the result is
\* cached when it is not empty, and returned.
settle(p, i, call, result) ==
    [p EXCEPT !.formStructureCache =
                 IF call.fn = "processHTMLWithGPT"
                    /\ Len(result.mappings) > 0
                 THEN set(@, call.key, JArray(result.mappings),
                          FORM_EXPIRATION, p.clock)
                 ELSE @,
              !.formFillCache =
                 IF call.fn = "processFormWithGPT"
                    /\ Len(result.mappings) > 0
                 THEN set(@, call.key, JArray(result.mappings),
                          DEFAULT_EXPIRATION, p.clock)
                 ELSE @,
              !.pending = splice1(@, i),
              !.last = [NoLast EXCEPT !.op = "response", !.fn = call.fn,
                                      !.keyed = TRUE, !.key = call.key,
                                      !.settled = TRUE, !.ret = result]]

respond(p, i, response) ==
    settle(p, i, p.pending[i], validated(p.pending[i], response))

Htmls ==
    {<<>>,
     <<FormNode(<<"a", "b">>)>>,
     <<ScriptNode, FormNode(<<"a", "b">>), FormNode(<<"a">>)>>,
     <<FormNode(<<"b", "a">>), EmptyFormNode>>}

Urls == {"u"}

ExtractedField(id) ==
    JObject([id |-> JString(id), type |-> JString("text")])

FormElementsArgs ==
    {Undefined, JArray(<<ExtractedField("a")>>),
     JArray(<<ExtractedField("a"), ExtractedField("b")>>)}

Conversations == {<<>>, <<"a", "b">>, <<"a", "b", "b">>}

PipelineReplies ==
    {NoReply, Reply(<<Prose, Prose>>),
     Reply(explained(<<MakeItem("id", "a", JString("v")),
                       MakeItem("id", "b", JString("v"))>>))}

PipelineInit ==
    /\ pipeline = NoPipeline
    /\ IdleCache /\ IdleForm /\ IdleContent /\ IdleObserver /\ IdleValidator
    /\ IdleFlow /\ IdleStandalone /\ IdleIndexer /\ IdleInjector
    /\ IdleDomObserver /\ IdleHighlight /\ IdleBackground

ProcessHTMLWithGPT(apiKey, html, url) ==
    /\ pipeline.calls < MaxCalls
    /\ pipeline' = processHTMLWithGPT(pipeline, apiKey, html, url)

\* The call in the history of the fill requests that reached the cache:
\* its field list, its context, its key and whether the cache answered.
keyedFill(p, formElements, userConversation) ==
    IF p.last.keyed
    THEN [p EXCEPT !.fills = Append(@, [formElements |-> formElements,
                                        context |-> userConversation,
                                        key |-> p.last.key,
                                        hit |-> p.last.settled,
                                        ret |-> p.last.ret])]
    ELSE p

ProcessFormWithGPT(apiKey, formElements, userConversation) ==
    /\ pipeline.calls < MaxCalls
    /\ pipeline' = keyedFill(processFormWithGPT(pipeline, apiKey,
                                                formElements,
                                                userConversation),
                             formElements, userConversation)

\* The completion API answers a pending request.
Respond(i, response) ==
    /\ i \in DOMAIN pipeline.pending
    /\ pipeline' = respond(pipeline, i, response)

\* An hour passes.
PipelineTick ==
    /\ pipeline.clock < MaxTime
    /\ pipeline' = [pipeline EXCEPT !.clock = @ + 1]

PipelineNext ==
    /\ \/ \E apiKey \in BOOLEAN, html \in Htmls, url \in Urls :
             ProcessHTMLWithGPT(apiKey, html, url)
       \/ \E apiKey \in BOOLEAN, formElements \in FormElementsArgs,
             userConversation \in Conversations :
             ProcessFormWithGPT(apiKey, formElements, userConversation)
       \/ \E i \in 1..MaxCalls, response \in PipelineReplies :
             Respond(i, response)
       \/ PipelineTick
    /\ UNCHANGED notPipelineVars

SpecPipeline == PipelineInit /\ [][PipelineNext]_vars

\* The cache a pipeline function reads.
CacheOf(p, fn) ==
    IF fn = "processHTMLWithGPT" THEN p.formStructureCache
    ELSE p.formFillCache

\* The cache holds an entry for the key that has not expired at instant t.
Unexpired(c, key, t) == key \in DOMAIN c.cache /\ t <= c.cache[key].expiresAt

\* C8: a call that computes its cache key while the cache holds an unexpired
\* entry for it returns that entry's payload, builds no prompt and sends no
\* request; a call that sends a request found no unexpired entry; and no
\* step other than such a call adds a pending request.
C8_HitShortCircuits ==
    [][ /\ (pipeline'.calls # pipeline.calls /\ pipeline'.last.keyed) =>
             /\ Unexpired(CacheOf(pipeline, pipeline'.last.fn),
                          pipeline'.last.key, pipeline.clock) =>
                   /\ pipeline'.last.settled
                   /\ pipeline'.last.ret
                        = Returns(CacheOf(pipeline, pipeline'.last.fn)
                                    .cache[pipeline'.last.key].data.items)
                   /\ ~ pipeline'.last.prompt
                   /\ ~ pipeline'.last.request
                   /\ pipeline'.pending = pipeline.pending
             /\ pipeline'.last.request =>
                   ~ Unexpired(CacheOf(pipeline, pipeline'.last.fn),
                               pipeline'.last.key, pipeline.clock)
        /\ Len(pipeline'.pending) > Len(pipeline.pending) =>
             /\ pipeline'.calls # pipeline.calls
             /\ pipeline'.last.request ]_vars

\* A call found its key in the cache and returned the cached payload
\* without a request.
C8_Witness ==
    /\ pipeline.last.op = "call" /\ pipeline.last.keyed
    /\ pipeline.last.settled /\ ~ pipeline.last.request
    /\ Len(pipeline.last.ret.mappings) > 0
    /\ pipeline.last.key \in
          DOMAIN CacheOf(pipeline, pipeline.last.fn).cache

\* C26: two fill requests over the same field list whose contexts differ
\* have different fill-cache keys, and a request answered from the cache
\* gets a list that an earlier request with the same context produced.
C26_ContextsSeparateKeys ==
    /\ \A i, j \in DOMAIN pipeline.fills :
          (/\ pipeline.fills[i].formElements = pipeline.fills[j].formElements
           /\ pipeline.fills[i].context # pipeline.fills[j].context)
             => pipeline.fills[i].key # pipeline.fills[j].key
    /\ \A j \in DOMAIN pipeline.fills :
          pipeline.fills[j].hit =>
             \E i \in 1..(j - 1) :
                pipeline.fills[i].context = pipeline.fills[j].context

(***************************************************************************)
(* A fill operation from the request to the response.  Two scripts answer  *)
(* a fill request: the background script of the idx generation             *)
(* (background/index.ts, side "background") and the content script of the  *)
(* scan generation (part_001 with FormProcessor, side "content").  flow is *)
(*   side, pc:     the script handling the request and where it waits      *)
(*   fills:        requests received                                       *)
(*   processor, settings: formProcessor is set; the stored settings        *)
(*   p:            the caches and the pending calls of gptProcessor.js     *)
(*   doc:          the document                                            *)
(*   elements, mappings: what the background script holds across awaits    *)
(*   results:      per form group, the mapping once it has come            *)
(*   notification: the type of the notification shown on the page          *)
(*   response:     what sendResponse was called with; filled is            *)
(*                 results.successful or filledCount                       *)
(*   noJson:       history: a reply of this operation held no parsable     *)
(*                 JSON                                                    *)
(*   requests, fillMessages, formData: history of this operation: the      *)
(*                 completion requests sent, the fillForms messages sent   *)
(*                 to the tab and the answer to getFormData, if any        *)
(***************************************************************************)
\* Fill requests in one behaviour.
MaxFills == 2

NoAnswer == [sent |-> FALSE, success |-> FALSE, error |-> "", filled |-> 0]

\* One of Pages: a text input with id "a" inside the label "Lm " within the
\* form, and a file input outside the form.
FlowDoc ==
    [inputs |-> <<MakeInput([id |-> <<"a">>, name |-> <<>>, type |-> "text",
                             value |-> <<>>], 1, 1, 1),
                  MakeInput([id |-> <<>>, name |-> <<>>, type |-> "file",
                             value |-> <<>>], 2, 0, 2)>>,
     labels |-> <<[text |-> LabelText, for |-> <<>>, box |-> 1, top |-> 1]>>,
     boxForm |-> <<TRUE, FALSE>>]

\* document.documentElement.outerHTML and window.location.href
FlowHtml == <<FormNode(<<"a", "b">>)>>
FlowUrl == "u"
\* The context data, where the settings hold one.
FlowContext == <<"a", "b">>

NoFlow == [side |-> "none", pc |-> "idle", fills |-> 0, processor |-> FALSE,
           settings |-> NoSettings, p |-> NoPipeline, doc |-> FlowDoc,
           elements |-> <<>>, mappings |-> <<>>, results |-> <<>>,
           notification |-> "none", response |-> NoAnswer, noJson |-> FALSE,
           requests |-> 0, fillMessages |-> 0, formData |-> <<>>,
           filledFields |-> <<>>, failedGroups |-> {}]

\* The listener takes a request.
received(f, side) ==
    [f EXCEPT !.side = side, !.fills = @ + 1, !.elements = <<>>,
              !.mappings = <<>>, !.results = <<>>, !.notification = "none",
              !.response = NoAnswer, !.noJson = FALSE, !.requests = 0,
              !.fillMessages = 0, !.formData = <<>>, !.filledFields = <<>>,
              !.failedGroups = {}]

\* sendResponse
answer(f, success, error, filled) ==
    [f EXCEPT !.pc = "done",
              !.response = [sent |-> TRUE, success |-> success,
                            error |-> error, filled |-> filled]]

\* ---- the background script (background/index.ts) ----
\* The catch of handleFillForms.
failed(f, message) == answer(f, FALSE, message, 0)

\* handleFillForms up to requestFormData; tab: an active tab is found;
\* password: "none" where the message carries none, "wrong" where getApiKey
\* yields nothing with it.
handleFillForms_background(f, tab, password) ==
    IF ~ tab THEN failed(f, "No active tab found")
    ELSE IF ~ f.settings.enabled THEN failed(f, "QuickFill is disabled")
    ELSE IF ~ f.settings.apiKey THEN failed(f, "API key is not set")
    ELSE IF password = "none" THEN failed(f, "Password is required")
    ELSE IF password = "wrong" THEN failed(f, "Failed to decrypt API key")
    ELSE [f EXCEPT !.pc = "formData"]

\* The rest of handleFillForms for form data that hold elements:
\* getContextData yields the stored context, empty or not, which is logged
\* where it is empty; processFormWithGPT of gptUtils.ts, given the decrypted
\* key, builds the prompt and callGPTAPI sends the request.
requestMappings(f, formData) ==
    [f EXCEPT !.pc = "gpt", !.elements = formData.elements,
              !.requests = @ + 1]

\* A handler that goes on whatever the form data hold.
afterFormData_anyElements(f, formData) ==
    IF formData = Undefined THEN failed(f, "TypeError")
    ELSE requestMappings(f, formData)

\* handleFillForms from the answer of requestFormData to the request of
\* callGPTAPI; formData.elements is empty where it is missing, and reading
\* success of an answer that is undefined throws.
afterFormData(f, formData) ==
    IF formData = Undefined THEN failed(f, "TypeError")
    ELSE IF ~ formData.success \/ Len(formData.elements) = 0
    THEN failed(f, "No form elements found on the page")
    ELSE requestMappings(f, formData)

\* processFormWithGPT of gptUtils.ts once callGPTAPI has its response; the
\* call throws where the response is not ok.
processFormWithGPT_idx(response, elements) ==
    IF ~ response.ok THEN [success |-> FALSE, mappings |-> <<>>]
    ELSE [success |-> TRUE,
          mappings |-> parseGPTResponse(response, elements).mappings]

\* handleFillForms from the response of the model to fillFormFields.
afterGPT(f, response) ==
    IF ~ response.success \/ Len(response.mappings) = 0
    THEN failed(f, "No fields could be filled")
    ELSE [f EXCEPT !.pc = "fill", !.mappings = response.mappings,
                   !.fillMessages = @ + 1]

\* handleFillForms from the answer of fillFormFields on; fillResult has no
\* results where the message could not be delivered
\* (chrome.runtime.lastError).
afterFill(f, fillResult) ==
    IF fillResult = Undefined THEN failed(f, "Failed to fill forms")
    ELSE answer(f, TRUE, "",
                IF fillResult.success THEN fillResult.successful ELSE 0)

\* ---- the content script (part_001) and FormProcessor ----
\* scanForForms() resolved: .then(() => sendResponse({success: true, logs}))
resolved(f, filledCount, type) ==
    answer([f EXCEPT !.notification = type], TRUE, "", filledCount)

\* The string of a JSON value, as a sequence of characters.
toText(v) == IF v.kind \in {"string", "number"} THEN Chars(v.text) ELSE <<>>

\* FormProcessor.convertToLegacyFormat: it reads id, value, label and
\* formId of each field.
convertToLegacyFormat(fields) ==
    [i \in DOMAIN fields |->
        [htmlElementId |-> toText(Prop(fields[i], "id")),
         value |-> toText(Prop(fields[i], "value")),
         label |-> toText(Prop(fields[i], "label")),
         formId |-> toText(Prop(fields[i], "formId")),
         type |-> ""]]

\* groups.get(field.formId).push(field), for a field that has a formId.
pushField(groups, field) ==
    IF Falsy(Prop(field, "formId")) THEN groups
    ELSE IF \E g \in DOMAIN groups : groups[g].formId = Prop(field, "formId")
    THEN [g \in DOMAIN groups |->
            IF groups[g].formId = Prop(field, "formId")
            THEN [groups[g] EXCEPT !.fields = Append(@, field)]
            ELSE groups[g]]
    ELSE Append(groups, [formId |-> Prop(field, "formId"),
                         fields |-> <<field>>])

RECURSIVE groupFieldsByForm(_, _, _)
\* FormProcessor.groupFieldsByForm: the groups in the order of the Map,
\* from field k on.
groupFieldsByForm(fields, k, groups) ==
    IF Len(groups) >= 0 /\ k > Len(fields) THEN groups
    ELSE groupFieldsByForm(fields, k + 1, pushField(groups, fields[k]))

\* The document and the forms filled so far in the form-by-form fallback;
\* run: fillFormWithMappings on the form of one more group.
groupFilled(acc, run) ==
    [page |-> run.page,
     count |-> IF ~ run.threw /\ run.filledFields > 0 THEN acc.count + 1
               ELSE acc.count,
     threw |-> acc.threw \/ run.threw]

RECURSIVE forOfFilledGroups(_, _, _)
\* for (const [formId, fields] of filledFieldGroups.entries()): no formId
\* of the model starts with "virtual-", and the form looked up is
\* document.forms[0] at the latest.
forOfFilledGroups(acc, groups, k) ==
    IF acc.count >= 0 /\ k > Len(groups) THEN acc
    ELSE forOfFilledGroups(
            groupFilled(acc,
               fillFormWithMappings(acc.page,
                  [node |-> "form", zenProcess |-> FALSE],
                  convertToLegacyFormat(groups[k].fields))),
            groups, k + 1)

\* After Promise.all(fillPromises): a rejected promise leads to the catch.
afterFallback(f, acc) ==
    IF acc.threw THEN resolved([f EXCEPT !.doc = acc.page], 0, "error")
    ELSE resolved([f EXCEPT !.doc = acc.page], acc.count,
                  IF acc.count > 0 THEN "success" ELSE "warning")

\* After the zen-process fill of document.body.
afterZen(f, filledFields, run) ==
    IF run.threw THEN resolved([f EXCEPT !.doc = run.page], 0, "error")
    ELSE IF run.filledFields > 0
    THEN resolved([f EXCEPT !.doc = run.page], 1, "success")
    ELSE afterFallback(f,
            forOfFilledGroups([page |-> run.page, count |-> 0,
                               threw |-> FALSE],
                              groupFieldsByForm(filledFields, 1, <<>>), 1))

\* FormProcessor.scanForForms after Promise.all(processPromises), with
\* filledFields and allMappings kept.
fillFields(f, filledFields) ==
    IF Len(filledFields) = 0 THEN resolved(f, 0, "warning")
    ELSE afterZen([f EXCEPT !.filledFields = filledFields,
                            !.mappings = convertToLegacyFormat(filledFields)],
                  filledFields,
                  fillFormWithMappings(f.doc,
                                       [node |-> "body", zenProcess |-> TRUE],
                                       convertToLegacyFormat(filledFields)))

\* The fields of the processed results, in the order of the requests.
combined(results) ==
    join([i \in DOMAIN results |-> results[i].fields], <<>>)

\* An aggregation that does not wait: the fields of the results there are
\* once one request has settled.
awaitAll_any(f) ==
    IF \A n \in DOMAIN f.results : ~ f.results[n].settled
    THEN [f EXCEPT !.pc = "completion"]
    ELSE fillFields(f, combined(f.results))

\* await Promise.all(processPromises)
awaitAll(f) ==
    IF f.p.pending # <<>> THEN [f EXCEPT !.pc = "completion"]
    ELSE fillFields(f, combined(f.results))

\* One processFormWithGPT call made: its result, or its place while the
\* request is pending.
called(f, p) ==
    [f EXCEPT !.p = p,
              !.requests = IF p.last.request THEN @ + 1 ELSE @,
              !.results = Append(@, [settled |-> p.last.settled,
                                     fields |-> p.last.ret.mappings])]

RECURSIVE forOfGroups(_, _, _)
\* for (const [formId, fields] of formFieldGroups.entries()): one
\* processFormWithGPT call per group, each run up to its first await.
forOfGroups(f, groups, k) ==
    IF f.fills >= 0 /\ k > Len(groups) THEN f
    ELSE forOfGroups(
            called(f, processFormWithGPT(f.p, f.settings.apiKey,
                                         JArray(groups[k].fields),
                                         FlowContext)),
            groups, k + 1)

\* FormProcessor.scanForForms once processHTMLWithGPT has returned;
\* groupFieldsByForm throws on a null field, inside the try.
extracted(f, extractedFields) ==
    IF Len(extractedFields) = 0 THEN resolved(f, 0, "warning")
    ELSE IF \E i \in DOMAIN extractedFields : NoProps(extractedFields[i])
    THEN resolved(f, 0, "error")
    ELSE awaitAll(forOfGroups(f, groupFieldsByForm(extractedFields, 1, <<>>),
                              1))

\* processHTMLWithGPT called: it has returned, thrown or sent its request.
extraction(f, p) ==
    IF ~ p.last.settled
    THEN [f EXCEPT !.p = p, !.pc = "completion", !.requests = @ + 1]
    ELSE IF p.last.ret.threw THEN resolved([f EXCEPT !.p = p], 0, "error")
    ELSE extracted([f EXCEPT !.p = p], p.last.ret.mappings)

\* The fillForms branch of the listener with scanForForms of the content
\* script and FormProcessor.scanForForms, up to the first await.
onMessage_fillForms(f) ==
    IF ~ f.processor THEN resolved(f, 0, "none")
    ELSE IF ~ f.settings.enabled \/ ~ f.settings.apiKey
            \/ ~ f.settings.contextData
    THEN resolved(f, 0, "none")
    ELSE extraction(f, processHTMLWithGPT(f.p, f.settings.apiKey, FlowHtml,
                                          FlowUrl))

\* The group whose request is the i-th pending one.
pendingGroup(results, i) ==
    CHOOSE n \in DOMAIN results :
       /\ ~ results[n].settled
       /\ Cardinality({m \in 1..n : ~ results[m].settled}) = i

\* The i-th pending call has its response: p is the pipeline after it.
completed(f, i, p) ==
    IF p.last.fn = "processHTMLWithGPT"
    THEN extracted([f EXCEPT !.p = p], p.last.ret.mappings)
    ELSE awaitAll([f EXCEPT
            !.p = p,
            !.results[pendingGroup(f.results, i)] =
                [settled |-> TRUE, fields |-> p.last.ret.mappings]])

\* ---- the replies and the messages ----
FlowField(id, formId) ==
    JObject([id |-> JString(id), label |-> JString("lm"),
             type |-> JString("text"), formId |-> JString(formId),
             value |-> JString("v")])

\* No response, a response without content, "Sorry, I can't help", the
\* fields of two forms, of one form, a field without formId, an array with
\* null in it, and the answer the idx generation asks for.
FlowReplies ==
    {NoReply, [NoReply EXCEPT !.ok = TRUE], Reply(<<Prose, Prose>>),
     Reply(explained(<<FlowField("a", "f"), FlowField("b", "g")>>)),
     Reply(bare(<<FlowField("a", "f")>>)),
     Reply(bare(<<ExtractedField("a")>>)),
     Reply(bare(<<JNull>>)),
     Reply(fenced(<<MakeItem("idx", "a", JString("v"))>>))}

\* The answers of the content script to getFormData: none, lastError, no
\* elements, and two elements.
FormDatas ==
    {Undefined, [success |-> FALSE, elements |-> <<>>],
     [success |-> TRUE, elements |-> <<>>],
     [success |-> TRUE, elements |-> <<FieldA, FieldB>>]}

\* The answers to fillForms for a list of n mappings: none, lastError, and
\* the counts of the content script.
FillResults(n) ==
    {Undefined} \cup [success : {FALSE}, successful : {0}]
       \cup [success : {TRUE}, successful : 0..n]

\* The text of a response holds no parsable JSON: no part of it parses.
NoParsableJSON(response) ==
    /\ response.ok /\ response.hasContent /\ response.content # <<>>
    /\ \A i, j \in DOMAIN response.content :
          i <= j => ~ JSON_parse(SubSeq(response.content, i, j)).ok

heard(f, response) ==
    [f EXCEPT !.noJson = @ \/ NoParsableJSON(response)]

\* The request failed: a provider error, or a reply without content or
\* without parsable JSON.
FailedReply(response) ==
    ~ response.ok \/ ~ response.hasContent \/ NoParsableJSON(response)

\* History: the groups whose request failed.
heardForGroup(f, i, response) ==
    IF f.p.pending[i].fn = "processFormWithGPT" /\ FailedReply(response)
    THEN [heard(f, response) EXCEPT
             !.failedGroups = @ \cup {pendingGroup(f.results, i)}]
    ELSE heard(f, response)

FlowInit ==
    /\ flow \in {[NoFlow EXCEPT !.processor = processor,
                                !.settings = settings] :
                    processor \in BOOLEAN, settings \in SettingsValues}
    /\ IdleCache /\ IdleForm /\ IdleContent /\ IdleObserver /\ IdleValidator
    /\ IdlePipeline /\ IdleStandalone /\ IdleIndexer /\ IdleInjector
    /\ IdleDomObserver /\ IdleHighlight /\ IdleBackground

\* The popup asks the background script to fill.
BackgroundFillForms(tab, password) ==
    /\ flow.pc \in {"idle", "done"} /\ flow.fills < MaxFills
    /\ flow' = handleFillForms_background(received(flow, "background"), tab,
                                          password)

\* The content script answers getFormData.
FormDataAnswers(formData) ==
    /\ flow.pc = "formData"
    /\ flow' = afterFormData([flow EXCEPT !.formData = <<formData>>], formData)

\* The completion API answers the background script.
GPTAnswers(response) ==
    /\ flow.pc = "gpt"
    /\ flow' = afterGPT(heard(flow, response),
                        processFormWithGPT_idx(response, flow.elements))

\* The content script answers fillForms.
FillAnswers(fillResult) ==
    /\ flow.pc = "fill"
    /\ flow' = afterFill(flow, fillResult)

\* The popup asks the content script to fill.
ContentFillForms ==
    /\ flow.pc \in {"idle", "done"} /\ flow.fills < MaxFills
    /\ flow' = onMessage_fillForms(received(flow, "content"))

\* The completion API answers a pending request of the content script.
CompletionAnswers(i, response) ==
    /\ flow.pc = "completion" /\ i \in DOMAIN flow.p.pending
    /\ flow' = completed(heardForGroup(flow, i, response), i,
                         respond(flow.p, i, response))

\* An hour passes.
FlowTick ==
    /\ flow.p.clock < MaxTime
    /\ flow' = [flow EXCEPT !.p.clock = @ + 1]

FlowNext ==
    /\ \/ \E tab \in BOOLEAN, password \in {"none", "wrong", "right"} :
             BackgroundFillForms(tab, password)
       \/ \E formData \in FormDatas : FormDataAnswers(formData)
       \/ \E response \in FlowReplies : GPTAnswers(response)
       \/ \E fillResult \in FillResults(Len(flow.mappings)) :
             FillAnswers(fillResult)
       \/ ContentFillForms
       \/ \E i \in 1..2, response \in FlowReplies :
             CompletionAnswers(i, response)
       \/ FlowTick
    /\ UNCHANGED notFlowVars

SpecFlow == FlowInit /\ [][FlowNext]_vars

\* C10: when a reply of the model in a fill operation held no parsable
\* JSON, the response sent to the requester has success = false and carries
\* an error message.
C10_NoJsonEndsInError ==
    (flow.response.sent /\ flow.noJson) =>
       (~ flow.response.success /\ flow.response.error # "")

\* The settings lack the API key or the context data.
Unconfigured(f) == ~ f.settings.apiKey \/ ~ f.settings.contextData

\* C11: in a fill operation made without an API key or without context
\* data no completion request is sent, and the response sent to the
\* requester has success = false and carries an error message.
C11_UnconfiguredAbortsWithError ==
    (flow.fills > 0 /\ Unconfigured(flow)) =>
       /\ flow.requests = 0
       /\ flow.response.sent =>
             (~ flow.response.success /\ flow.response.error # "")

\* The form data answered to the background script hold no element, or the
\* request for them failed.
NoCandidates(formData) ==
    formData = Undefined \/ ~ formData.success \/ Len(formData.elements) = 0

Aggregated(f) == f.side = "content" /\ f.pc = "done" /\ f.results # <<>>

\* C15: when scanForForms has gone past Promise.all, every request of a
\* form group has settled; a group whose request failed has contributed no
\* mappings; and the fields of all the groups, in the order of the requests,
\* are what was aggregated and, when there are any, handed to the fill.
C15_AggregatesAfterAllSettle ==
    Aggregated(flow) =>
       /\ \A n \in DOMAIN flow.results : flow.results[n].settled
       /\ flow.p.pending = <<>>
       /\ \A n \in flow.failedGroups : flow.results[n].fields = <<>>
       /\ flow.filledFields = combined(flow.results)
       /\ flow.mappings = convertToLegacyFormat(combined(flow.results))
       /\ combined(flow.results) # <<>> =>
             flow.notification \in {"success", "warning", "error"}

\* Two requests, one of which failed, and the mappings of the other one
\* filled a field.
C15_Witness ==
    /\ Aggregated(flow)
    /\ Len(flow.results) = 2
    /\ flow.requests = 3
    /\ flow.failedGroups # {}
    /\ flow.filledFields # <<>>
    /\ flow.notification = "success"
    /\ flow.response.filled > 0
    /\ flow.doc # FlowDoc

\* C25: each mapping that scanForForms hands to fillFormWithMappings
\* carries the identifier, the label and the formId of the field as
\* processGPTMappingResponse returned it.
C25_MappingsKeepEveryKey ==
    Len(flow.filledFields) > 0 =>
       /\ Len(flow.mappings) = Len(flow.filledFields)
       /\ \A k \in DOMAIN flow.mappings :
             /\ flow.mappings[k].htmlElementId =
                   toText(Prop(flow.filledFields[k], "htmlElementId"))
             /\ flow.mappings[k].label =
                   toText(Prop(flow.filledFields[k], "label"))
             /\ flow.mappings[k].formId =
                   toText(Prop(flow.filledFields[k], "formId"))

(***************************************************************************)
(* Standalone inputs: groupInputsByContainer and findCommonContainer       *)
(* (formUtils.js).  A document is the sequence of the elements under       *)
(* document.body in document order, each with its parent (Body or an       *)
(* earlier element) and its tag; inputs have no children.  standalone is   *)
(*   doc:     the document                                                 *)
(*   inputs:  the list handed to groupInputsByContainer                    *)
(*   called:  the function has run; groups: what it returned               *)
(***************************************************************************)
\* Elements under document.body.
MaxNodes == 4

Body == 0

Tags == {"div", "form", "input"}

RECURSIVE Ancestors(_, _)
\* The ancestors of element n up to document.body.
Ancestors(doc, n) ==
    IF n = Body THEN {}
    ELSE {doc[n].parent} \cup Ancestors(doc, doc[n].parent)

\* The elements the next element of a document can be appended to: the last
\* element and its ancestors, inputs excepted.
OpenElements(doc) ==
    {a \in {Len(doc)} \cup Ancestors(doc, Len(doc)) :
        a = Body \/ doc[a].tag # "input"}

RECURSIVE DocsOfSize(_)
DocsOfSize(n) ==
    IF n = 0 THEN {<<>>}
    ELSE UNION {{Append(doc, [parent |-> a, tag |-> tag]) :
                    a \in OpenElements(doc), tag \in Tags} :
                doc \in DocsOfSize(n - 1)}

\* The documents of at most n elements.
DocsUpTo(n) == UNION {DocsOfSize(k) : k \in 1..n}

\* element.matches(INPUT_SELECTORS.STANDALONE_COMBINED): an input that is
\* not inside a form.
matchesStandalone(doc, n) ==
    /\ doc[n].tag = "input"
    /\ \A a \in Ancestors(doc, n) \ {Body} : doc[a].tag # "form"

\* The elements of S in document order.
InOrder(doc, S) ==
    SelectSeq([n \in 1..Len(doc) |-> n], LAMBDA n : n \in S)

\* container.querySelectorAll(INPUT_SELECTORS.STANDALONE_COMBINED)
querySelectorAllStandalone(doc, container) ==
    InOrder(doc, {n \in 1..Len(doc) :
                    container \in Ancestors(doc, n)
                       /\ matchesStandalone(doc, n)})

\* One round of the loop of findCommonContainer.
levelUp(doc, container) ==
    IF container # Body THEN doc[container].parent ELSE container

\* The container after the loop, or the parent where the loop ended at
\* document.body.
fallbackToParent(doc, element, container) ==
    IF container = Body THEN doc[element].parent ELSE container

findCommonContainer(doc, element) ==
    fallbackToParent(doc, element,
                     levelUp(doc, levelUp(doc, doc[element].parent)))

\* groups.push({container, inputs: containerInputs}), the inputs marked as
\* processed.
pushGroup(acc, container, containerInputs) ==
    [groups |-> Append(acc.groups, [container |-> container,
                                    inputs |-> containerInputs]),
     processedInputs |-> acc.processedInputs
                           \cup {containerInputs[i] :
                                    i \in DOMAIN containerInputs}]

\* The body of the loop of groupInputsByContainer.
groupInput(doc, acc, input) ==
    IF input \in acc.processedInputs THEN acc
    ELSE pushGroup(acc, findCommonContainer(doc, input),
                   querySelectorAllStandalone(doc,
                      findCommonContainer(doc, input)))

RECURSIVE forOfInputs(_, _, _, _)
forOfInputs(doc, inputs, k, acc) ==
    IF Len(acc.groups) >= 0 /\ k > Len(inputs) THEN acc
    ELSE forOfInputs(doc, inputs, k + 1, groupInput(doc, acc, inputs[k]))

groupInputsByContainer(doc, inputs) ==
    forOfInputs(doc, inputs, 1, [groups |-> <<>>, processedInputs |-> {}])
       .groups

\* The standalone inputs of a document, all of them or the visible ones.
InputLists_standalone(doc) ==
    {InOrder(doc, S) :
        S \in SUBSET {n \in 1..Len(doc) : matchesStandalone(doc, n)}}

GroupsInit ==
    /\ standalone \in
          UNION {[doc : {doc}, inputs : InputLists_standalone(doc),
                  called : {FALSE}, groups : {<<>>}] :
                    doc \in DocsUpTo(MaxNodes)}
    /\ IdleCache /\ IdleForm /\ IdleContent /\ IdleObserver /\ IdleValidator
    /\ IdlePipeline /\ IdleFlow /\ IdleIndexer /\ IdleInjector
    /\ IdleDomObserver /\ IdleHighlight /\ IdleBackground

GroupInputsByContainer ==
    /\ ~ standalone.called
    /\ standalone' = [standalone EXCEPT
          !.called = TRUE,
          !.groups = groupInputsByContainer(standalone.doc,
                                            standalone.inputs)]

GroupsNext == GroupInputsByContainer /\ UNCHANGED notStandaloneVars

SpecGroups == GroupsInit /\ [][GroupsNext]_vars

\* The groups that hold an input.
GroupsOf(groups, input) ==
    {g \in DOMAIN groups :
        \E i \in DOMAIN groups[g].inputs : groups[g].inputs[i] = input}

\* C13: every input of the list handed to groupInputsByContainer is among
\* the inputs of exactly one of the groups returned.
C13_GroupsPartitionInputs ==
    standalone.called =>
       \A k \in DOMAIN standalone.inputs :
          Cardinality(GroupsOf(standalone.groups, standalone.inputs[k])) = 1

(***************************************************************************)
(* Virtual forms: createVirtualForm and fillVirtualFormWithMappings        *)
(* (formUtils.js), on the documents of the value injector.  standalone is  *)
(*   doc:      the document                                                *)
(*   inputs:   the array handed to createVirtualForm, which the virtual    *)
(*             form keeps as originalInputs (the same array)               *)
(*   created:  the virtual form exists; clones: its child nodes            *)
(*   called:   fillVirtualFormWithMappings has run; ret: what it returned  *)
(*   given, before, targets: history: the array as it was given, the       *)
(*             document before the fill, and the elements handed to        *)
(*             fillElement                                                 *)
(***************************************************************************)
\* Two nodes count as near (a distance under 200 pixels) when they are on
\* the same row of the document.
NearRows == 1

Range(s) == {s[k] : k \in DOMAIN s}

\* inputMap.get(key), the map being filled in the order of originalInputs
\* with the id and the name of each input.
inputMapGet(pg, inputs, key) ==
    IF key = <<>>
       \/ \A k \in DOMAIN inputs :
             pg.inputs[inputs[k]].id # key /\ pg.inputs[inputs[k]].name # key
    THEN NoElement
    ELSE inputs[Max({k \in DOMAIN inputs :
                       \/ pg.inputs[inputs[k]].id = key
                       \/ pg.inputs[inputs[k]].name = key})]

\* document.querySelector('label[for="id"]') for an input with an id.
labelFor(pg, i) ==
    IF pg.inputs[i].id = <<>> THEN 0
    ELSE First({l \in Labels(pg) : pg.labels[l].for = pg.inputs[i].id})

\* label.textContent.trim().toLowerCase()
labelTextOf(pg, l) == toLowerCase(trim(pg.labels[l].text))

\* The positions of originalInputs that put an entry into labelMap.
Labelled(pg, inputs) == {k \in DOMAIN inputs : labelFor(pg, inputs[k]) # 0}

\* labelMap.get(key) for a key of the map.
labelMapGet(pg, inputs, key) ==
    inputs[Max({k \in Labelled(pg, inputs) :
                  labelTextOf(pg, labelFor(pg, inputs[k])) = key})]

\* labelText.includes(labelLower) || labelLower.includes(labelText)
partialMatch(labelText, labelLower) ==
    includes(labelText, labelLower) \/ includes(labelLower, labelText)

\* The exact and the partial match in labelMap, whose entries are visited
\* in the order of their first insertion.
byLabelMap(pg, inputs, labelLower) ==
    IF \E k \in Labelled(pg, inputs) :
          labelTextOf(pg, labelFor(pg, inputs[k])) = labelLower
    THEN labelMapGet(pg, inputs, labelLower)
    ELSE IF \E k \in Labelled(pg, inputs) :
               partialMatch(labelTextOf(pg, labelFor(pg, inputs[k])),
                            labelLower)
    THEN labelMapGet(pg, inputs,
            labelTextOf(pg, labelFor(pg, inputs[
               Min({k \in Labelled(pg, inputs) :
                      partialMatch(labelTextOf(pg, labelFor(pg, inputs[k])),
                                   labelLower)})])))
    ELSE NoElement

\* The inputs below the siblings of the parent of a label.
siblingInputs(pg, l) ==
    InputsUnderParentOf(pg, pg.labels[l].box)
       \ InputsInBox(pg, pg.labels[l].box)

RECURSIVE forOfAllLabels(_, _, _, _)
\* for (const domLabel of allLabels), from label l on with the element
\* found so far: the input named by "for", the first input inside the
\* label or the first one below its parent end the loop; the first input
\* below a sibling of the parent is kept and the loop goes on.
forOfAllLabels(pg, labelLower, l, element) ==
    IF element >= 0 /\ l > Len(pg.labels) THEN element
    ELSE IF ~ (labelTextOf(pg, l) = labelLower
                 \/ partialMatch(labelTextOf(pg, l), labelLower))
    THEN forOfAllLabels(pg, labelLower, l + 1, element)
    ELSE IF pg.labels[l].for # <<>>
            /\ getElementById(pg, pg.labels[l].for) # NoElement
    THEN getElementById(pg, pg.labels[l].for)
    ELSE IF InputsInLabel(pg, l) # {} THEN First(InputsInLabel(pg, l))
    ELSE IF element = NoElement /\ InputsInBox(pg, pg.labels[l].box) # {}
    THEN First(InputsInBox(pg, pg.labels[l].box))
    ELSE IF element = NoElement /\ siblingInputs(pg, l) # {}
    THEN forOfAllLabels(pg, labelLower, l + 1, First(siblingInputs(pg, l)))
    ELSE forOfAllLabels(pg, labelLower, l + 1, element)

\* The search by label: labelMap, then the labels of the document.
byLabel_virtual(pg, inputs, labelLower) ==
    IF byLabelMap(pg, inputs, labelLower) # NoElement
    THEN byLabelMap(pg, inputs, labelLower)
    ELSE forOfAllLabels(pg, labelLower, 1, NoElement)

\* input.type || input.tagName.toLowerCase(): the inputs of a type, in the
\* order of originalInputs.
typeMapGet(pg, inputs, type) ==
    SelectSeq(inputs, LAMBDA i : pg.inputs[i].type = type)

\* The radio button of the given value.
byRadioValue_virtual(pg, inputs, m) ==
    IF \E k \in DOMAIN typeMapGet(pg, inputs, "radio") :
          pg.inputs[typeMapGet(pg, inputs, "radio")[k]].value = m.value
    THEN typeMapGet(pg, inputs, "radio")[
            Min({k \in DOMAIN typeMapGet(pg, inputs, "radio") :
                   pg.inputs[typeMapGet(pg, inputs, "radio")[k]].value
                      = m.value})]
    ELSE NoElement

\* A text node containing the label lies near input i.
textNear(pg, i, label) ==
    \E l \in Labels(pg) :
       /\ includes(toLowerCase(trim(pg.labels[l].text)), toLowerCase(label))
       /\ Abs(pg.labels[l].top - pg.inputs[i].top) < NearRows

\* The inputs of the type: with several of them and a label, the first one
\* near a text containing the label; else the first one.
byType_virtual(pg, typeInputs, m) ==
    IF Len(typeInputs) > 1 /\ m.label # <<>>
       /\ \E k \in DOMAIN typeInputs : textNear(pg, typeInputs[k], m.label)
    THEN typeInputs[Min({k \in DOMAIN typeInputs :
                           textNear(pg, typeInputs[k], m.label)})]
    ELSE typeInputs[1]

\* The first of originalInputs whose id or name contains the identifier.
byPartialId_virtual(pg, originalInputs, h) ==
    IF \E k \in DOMAIN originalInputs :
          \/ /\ pg.inputs[originalInputs[k]].id # <<>>
             /\ includes(pg.inputs[originalInputs[k]].id, h)
          \/ /\ pg.inputs[originalInputs[k]].name # <<>>
             /\ includes(pg.inputs[originalInputs[k]].name, h)
    THEN originalInputs[Min({k \in DOMAIN originalInputs :
            \/ /\ pg.inputs[originalInputs[k]].id # <<>>
               /\ includes(pg.inputs[originalInputs[k]].id, h)
            \/ /\ pg.inputs[originalInputs[k]].name # <<>>
               /\ includes(pg.inputs[originalInputs[k]].name, h)})]
    ELSE NoElement

\* The state of the forEach over the mappings: the document, the array
\* originalInputs, the fields filled and the elements handed to fillElement.
\* filled: fillElement(element, value) and the count.
filled(acc, element, w) ==
    [acc EXCEPT !.page = w.page,
                !.filledFields = IF w.ok THEN @ + 1 ELSE @,
                !.targets = Append(@, element)]

\* The lookups that follow the search by label, with the element found so
\* far, and the fill.
afterLabel(acc, inputs, m, element) ==
    IF element # NoElement
    THEN filled(acc, element, fillElement(acc.page, element, m.value))
    ELSE IF m.type = "radio" /\ m.value # <<>>
            /\ byRadioValue_virtual(acc.page, inputs, m) # NoElement
    THEN filled(acc, byRadioValue_virtual(acc.page, inputs, m),
                fillElement(acc.page,
                            byRadioValue_virtual(acc.page, inputs, m),
                            m.value))
    ELSE IF m.type # "" /\ Len(typeMapGet(acc.page, inputs, m.type)) > 0
    THEN filled(acc,
                byType_virtual(acc.page, typeMapGet(acc.page, inputs, m.type),
                               m),
                fillElement(acc.page,
                   byType_virtual(acc.page,
                                  typeMapGet(acc.page, inputs, m.type), m),
                   m.value))
    ELSE IF m.htmlElementId # <<>>
            /\ byPartialId_virtual(acc.page, acc.originalInputs,
                                   m.htmlElementId) # NoElement
    THEN filled(acc,
                byPartialId_virtual(acc.page, acc.originalInputs,
                                    m.htmlElementId),
                fillElement(acc.page,
                   byPartialId_virtual(acc.page, acc.originalInputs,
                                       m.htmlElementId),
                   m.value))
    ELSE acc

\* The element found outside the array is filled without being pushed.
pushOutside_never(acc, element) == acc

\* originalInputs.push(element) for an element found outside the array.
pushOutside(acc, element) ==
    IF element # NoElement /\ element \notin Range(acc.originalInputs)
    THEN [acc EXCEPT !.originalInputs = Append(@, element)]
    ELSE acc

\* The forEach callback on mapping m; inputs: originalInputs as the maps
\* were built from it.
fillVirtualMapping(acc, inputs, m) ==
    IF inputMapGet(acc.page, inputs, m.htmlElementId) # NoElement
    THEN afterLabel(acc, inputs, m,
                    inputMapGet(acc.page, inputs, m.htmlElementId))
    ELSE IF m.label # <<>>
    THEN afterLabel(
            pushOutside(acc, byLabel_virtual(acc.page, inputs,
                                             toLowerCase(m.label))),
            inputs, m,
            byLabel_virtual(acc.page, inputs, toLowerCase(m.label)))
    ELSE afterLabel(acc, inputs, m, NoElement)

RECURSIVE forEachVirtualMapping(_, _, _, _)
forEachVirtualMapping(acc, inputs, mappings, k) ==
    IF acc.filledFields >= 0 /\ k > Len(mappings) THEN acc
    ELSE forEachVirtualMapping(fillVirtualMapping(acc, inputs, mappings[k]),
                               inputs, mappings, k + 1)

\* fillVirtualFormWithMappings(virtualForm, mappings): the document, the
\* array and the count after the call.
fillVirtualFormWithMappings(pg, originalInputs, mappings) ==
    IF Len(mappings) = 0
    THEN [page |-> pg, originalInputs |-> originalInputs,
          filledFields |-> 0, targets |-> <<>>]
    ELSE forEachVirtualMapping(
            [page |-> pg, originalInputs |-> originalInputs,
             filledFields |-> 0, targets |-> <<>>],
            originalInputs, mappings, 1)

\* input.cloneNode(true) of every input.
cloneNodes(pg, inputs) == [k \in DOMAIN inputs |-> pg.inputs[inputs[k]]]

\* The lists of inputs outside any form, in document order.
OrphanLists(pg) ==
    {SelectSeq([i \in Inputs(pg) |-> i], LAMBDA i : i \in S) :
        S \in (SUBSET {i \in Inputs(pg) : ~ pg.boxForm[pg.inputs[i].box]})
                 \ {{}}}

VirtualInit ==
    /\ standalone \in
          UNION {[doc : {pg}, inputs : OrphanLists(pg), created : {FALSE},
                  clones : {<<>>}, called : {FALSE}, ret : {0},
                  given : {<<>>}, before : {pg}, targets : {<<>>}] :
                    pg \in Pages}
    /\ IdleCache /\ IdleForm /\ IdleContent /\ IdleObserver /\ IdleValidator
    /\ IdlePipeline /\ IdleFlow /\ IdleIndexer /\ IdleInjector
    /\ IdleDomObserver /\ IdleHighlight /\ IdleBackground

CreateVirtualForm ==
    /\ ~ standalone.created
    /\ standalone' = [standalone EXCEPT
          !.created = TRUE,
          !.clones = cloneNodes(standalone.doc, standalone.inputs),
          !.given = standalone.inputs]

\* The document, the array and the history after a call that ended as run.
virtualFilled(s, run) ==
    [s EXCEPT !.called = TRUE, !.before = s.doc, !.doc = run.page,
              !.inputs = run.originalInputs, !.ret = run.filledFields,
              !.targets = run.targets]

FillVirtualFormWithMappings(mappings) ==
    /\ standalone.created /\ ~ standalone.called
    /\ standalone' = virtualFilled(standalone,
          fillVirtualFormWithMappings(standalone.doc, standalone.inputs,
                                      mappings))

VirtualNext ==
    /\ \/ CreateVirtualForm
       \/ \E mappings \in MappingLists : FillVirtualFormWithMappings(mappings)
    /\ UNCHANGED notStandaloneVars

SpecVirtual == VirtualInit /\ [][VirtualNext]_vars

\* C14: after fillVirtualFormWithMappings every element handed to
\* fillElement is one of the inputs the virtual form was created from, no
\* other input of the page has changed, the clones are as they were made,
\* and originalInputs is the list that was given.
C14_WritesOnlyOriginalInputs ==
    standalone.called =>
       /\ \A k \in DOMAIN standalone.targets :
             standalone.targets[k] \in Range(standalone.given)
       /\ \A i \in Inputs(standalone.doc) \ Range(standalone.given) :
             standalone.doc.inputs[i] = standalone.before.inputs[i]
       /\ standalone.clones = cloneNodes(standalone.before, standalone.given)
       /\ standalone.inputs = standalone.given

\* C14 as the code has it: every element handed to fillElement is in
\* originalInputs after the call, the list that was given is a prefix of it
\* and only elements that were filled have been appended, no input outside
\* it has changed, and the clones are as they were made.
C14_WritesOnlyListedInputs ==
    standalone.called =>
       /\ \A k \in DOMAIN standalone.targets :
             standalone.targets[k] \in Range(standalone.inputs)
       /\ Len(standalone.given) <= Len(standalone.inputs)
       /\ SubSeq(standalone.inputs, 1, Len(standalone.given))
             = standalone.given
       /\ Range(standalone.inputs) \ Range(standalone.given)
             \subseteq Range(standalone.targets)
       /\ \A i \in Inputs(standalone.doc) \ Range(standalone.inputs) :
             standalone.doc.inputs[i] = standalone.before.inputs[i]
       /\ standalone.clones = cloneNodes(standalone.before, standalone.given)

\* A call that filled an input outside the list it was given.
C14_Witness ==
    /\ standalone.called
    /\ \E k \in DOMAIN standalone.targets :
          /\ standalone.targets[k] \notin Range(standalone.given)
          /\ standalone.doc.inputs[standalone.targets[k]]
                # standalone.before.inputs[standalone.targets[k]]
    /\ standalone.inputs # standalone.given
    /\ standalone.ret > 0

(***************************************************************************)
(* The element indexers: extractFormElements (formUtils.js) and            *)
(* indexAllInputs (domUtils.ts), on the documents of the value injector,   *)
(* all of whose elements are visible.  indexer is                          *)
(*   doc:        the document                                              *)
(*   indexed:    an indexer has run; variant: which one; root: its root    *)
(*   elements:   its output, each entry with el, the node it describes     *)
(*               (history)                                                 *)
(*   elementMap: the element map of domUtils.ts; uuids: tokens issued      *)
(*   applied:    the entry a mapping was made for and applied to (0: none) *)
(***************************************************************************)
\* A label around an input and a second label that names the input "a".
SecondLabel(box) ==
    [text |-> <<" ", "x">>, for |-> <<"a">>, box |-> box, top |-> box]

IndexerPages ==
    Pages \cup
    {[pg EXCEPT !.labels = Append(@, SecondLabel(box))] :
        pg \in {q \in Pages : Len(q.labels) = 1 /\ q.labels[1].for = <<>>},
        box \in Boxes}

\* The labels of the box of input i, which precede its inputs.
LabelsBefore(pg, i) == {l \in Labels(pg) : pg.labels[l].box = pg.inputs[i].box}

\* getElementLabel: the text of the closest enclosing label, else of the
\* nearest preceding sibling that is a label, else "".
getElementLabel(pg, i) ==
    IF pg.inputs[i].wrap # 0 /\ pg.labels[pg.inputs[i].wrap].text # <<>>
    THEN trim(pg.labels[pg.inputs[i].wrap].text)
    ELSE IF pg.inputs[i].wrap = 0
            /\ \E l \in LabelsBefore(pg, i) : pg.labels[l].text # <<>>
    THEN trim(pg.labels[Max({l \in LabelsBefore(pg, i) :
                               pg.labels[l].text # <<>>})].text)
    ELSE <<>>

\* The entry of indexAllInputs for input i with token uuid.
indexedElement(pg, i, uuid) ==
    [idx |-> uuid, id |-> pg.inputs[i].id, name |-> pg.inputs[i].name,
     type |-> pg.inputs[i].type, hasLabel |-> getElementLabel(pg, i) # <<>>,
     label |-> getElementLabel(pg, i), el |-> i]

\* indexAllInputs: the map is cleared and every input of the document gets
\* a fresh token, in document order.
indexAllInputs_page(x) ==
    [x EXCEPT !.indexed = TRUE, !.variant = "indexAllInputs",
              !.root = [node |-> "body", zenProcess |-> FALSE],
              !.elements = [i \in Inputs(x.doc) |->
                               indexedElement(x.doc, i, x.uuids + i)],
              !.elementMap = [u \in (x.uuids + 1)..(x.uuids + Len(x.doc.inputs))
                                 |-> u - x.uuids],
              !.uuids = x.uuids + Len(x.doc.inputs),
              !.applied = 0]

\* elementInfo of extractFormElements for input i; label is set when
\* getAssociatedLabel finds a label.
elementInfo(pg, i) ==
    [idx |-> 0, id |-> pg.inputs[i].id, name |-> pg.inputs[i].name,
     type |-> pg.inputs[i].type, hasLabel |-> getAssociatedLabel(pg, i) # 0,
     label |-> IF getAssociatedLabel(pg, i) # 0
               THEN trim(pg.labels[getAssociatedLabel(pg, i)].text)
               ELSE <<>>,
     el |-> i]

\* .filter((el) => el.id || el.name)
hasIdOrName(info) == info.id # <<>> \/ info.name # <<>>

\* extractFormElements(formElement)
extractFormElements(pg, formElement) ==
    SelectSeq([i \in Inputs(pg) |-> elementInfo(pg, i)],
              LAMBDA info : info.el \in InScope(pg, formElement)
                            /\ hasIdOrName(info))

extractFormElements_indexer(x, formElement) ==
    [x EXCEPT !.indexed = TRUE, !.variant = "extractFormElements",
              !.root = formElement,
              !.elements = extractFormElements(x.doc, formElement),
              !.applied = 0]

\* The mapping made for an entry of extractFormElements.
mappingFor(info) ==
    [htmlElementId |-> IF info.id # <<>> THEN info.id ELSE info.name,
     value |-> <<"v">>, label |-> info.label, type |-> info.type]

\* A mapping for entry k applied: by fillInputByIdx for an entry of
\* indexAllInputs, by fillFormWithMappings for one of extractFormElements.
applyTo(x, k) ==
    IF x.variant = "indexAllInputs"
    THEN [x EXCEPT !.applied = k,
                   !.doc.inputs = fillInputByIdx(x.doc.inputs, x.elementMap,
                                                 x.elements[k].idx, "v").doc]
    ELSE [x EXCEPT !.applied = k,
                   !.doc = fillFormWithMappings(
                              x.doc, x.root,
                              <<mappingFor(x.elements[k])>>).page]

NoIndexYet(pg) ==
    [doc |-> pg, indexed |-> FALSE, variant |-> "none",
     root |-> [node |-> "body", zenProcess |-> FALSE], elements |-> <<>>,
     elementMap |-> EmptyMap, uuids |-> 0, applied |-> 0]

IndexerInit ==
    /\ indexer \in {NoIndexYet(pg) : pg \in IndexerPages}
    /\ IdleCache /\ IdleForm /\ IdleContent /\ IdleObserver /\ IdleValidator
    /\ IdlePipeline /\ IdleFlow /\ IdleStandalone /\ IdleInjector
    /\ IdleDomObserver /\ IdleHighlight /\ IdleBackground

ExtractFormElements(formElement) ==
    /\ indexer.applied = 0
    /\ indexer.uuids = 0
    /\ indexer' = extractFormElements_indexer(indexer, formElement)

IndexAllInputs ==
    /\ indexer.applied = 0
    /\ indexer.uuids < MaxScans * Len(indexer.doc.inputs)
    /\ indexer' = indexAllInputs_page(indexer)

ApplyMapping(k) ==
    /\ indexer.indexed /\ indexer.applied = 0
    /\ k \in DOMAIN indexer.elements
    /\ indexer' = applyTo(indexer, k)

IndexerNext ==
    /\ \/ \E formElement \in FormArgs : ExtractFormElements(formElement)
       \/ IndexAllInputs
       \/ \E k \in 1..2 : ApplyMapping(k)
    /\ UNCHANGED notIndexerVars

SpecIndexer == IndexerInit /\ [][IndexerNext]_vars

\* The entries of the output that describe input i.
EntriesOf(x, i) == {k \in DOMAIN x.elements : x.elements[k].el = i}

\* The entry has an identifier a mapping can carry: a token of the element
\* map that leads to the element, or the id or the name of the element.
Usable(x, k) ==
    IF x.variant = "indexAllInputs"
    THEN /\ x.elements[k].idx \in DOMAIN x.elementMap
         /\ x.elementMap[x.elements[k].idx] = x.elements[k].el
    ELSE hasIdOrName(x.elements[k])

\* C16: once an indexer has run, every input below its root that has
\* neither an id nor a name is in the output with a usable identifier, and
\* a mapping made for such an entry of a text input and applied has filled
\* that input.
C16_NamelessElementsIndexed ==
    indexer.indexed =>
       /\ \A i \in InScope(indexer.doc, indexer.root) :
             (indexer.doc.inputs[i].id = <<>>
                /\ indexer.doc.inputs[i].name = <<>>) =>
                \E k \in EntriesOf(indexer, i) : Usable(indexer, k)
       /\ (/\ indexer.applied # 0
           /\ indexer.elements[indexer.applied].id = <<>>
           /\ indexer.elements[indexer.applied].name = <<>>
           /\ indexer.elements[indexer.applied].type = "text") =>
             indexer.doc.inputs[indexer.elements[indexer.applied].el].filled

\* The label whose for attribute names input i (0: none).
LabelNaming(pg, i) ==
    IF pg.inputs[i].id = <<>> THEN 0
    ELSE First({l \in Labels(pg) : pg.labels[l].for = pg.inputs[i].id})

\* C17: once an indexer has run, every entry for an input that has an id
\* and a label whose for attribute names it reports the trimmed text of that
\* label.
C17_LabelForReported ==
    indexer.indexed =>
       \A k \in DOMAIN indexer.elements :
          LabelNaming(indexer.doc, indexer.elements[k].el) # 0 =>
             /\ indexer.elements[k].hasLabel
             /\ indexer.elements[k].label =
                   trim(indexer.doc.labels[
                           LabelNaming(indexer.doc,
                                       indexer.elements[k].el)].text)

(***************************************************************************)
(* The element writers: fillElement, fillSelectElement and                 *)
(* fillCheckboxOrRadio (formUtils.js) and the write of fillInputByIdx      *)
(* (domUtils.ts), on documents of one element.  injector is                *)
(*   doc:     the document; before: the document before the latest call    *)
(*   calls:   calls made; fn, el, value: the latest call                   *)
(*   ret:     what it returned (FALSE for a function that returns nothing) *)
(*   events:  the events it dispatched, in order                           *)
(*   tier:    history: the loop of fillSelectElement that matched          *)
(*   repeats: history: the times the latest call repeated the one before   *)
(* A select has its options [value, text] and selectedIndex; a custom      *)
(* select (a div) has, or lacks, a hidden input with its value.            *)
(***************************************************************************)
MaxOptions == 2
MaxWrites == 1
\* The times the latest call may be made again with the same arguments.
MaxRepeats == 1

\* A value of a mapping: a string or a boolean.
Str(chars) == [typeof |-> "string", chars |-> chars, bool |-> FALSE]
Bool(b) == [typeof |-> "boolean", chars |-> <<>>, bool |-> b]

\* Options whose texts match one another by substring or once normalized,
\* two of them with the same value.
Options ==
    {[value |-> <<"x">>, text |-> <<"A", "b">>],
     [value |-> <<"x">>, text |-> <<" ", "b", " ">>],
     [value |-> <<"y">>, text |-> <<" ", "b", " ">>],
     [value |-> <<"y">>, text |-> <<"a", "-", "b">>]}

OptionLists(n) == ListsUpTo(Options, n) \ {<<>>}

\* An input element with id "a", and the other elements.
InputOf(type, checked) ==
    [MakeInput([id |-> <<"a">>, name |-> <<>>, type |-> type,
                value |-> <<"v">>], 1, 0, 1) EXCEPT !.checked = checked]

SelectOf(options) ==
    [id |-> <<"a">>, name |-> <<>>, type |-> "select-one",
     value |-> options[1].value, checked |-> FALSE, filled |-> FALSE,
     box |-> 1, wrap |-> 0, top |-> 1, options |-> options,
     selectedIndex |-> 1]

DivOf(id, hiddenInput) ==
    [id |-> id, name |-> <<>>, type |-> "div", value |-> <<>>,
     checked |-> FALSE, filled |-> FALSE, box |-> 1, wrap |-> 0, top |-> 1,
     hiddenInput |-> hiddenInput, hiddenValue |-> <<>>,
     hiddenFilled |-> FALSE]

\* The elements whose label is looked at, and the other ones.
LabelledElements ==
    {InputOf("radio", FALSE)}
       \cup {InputOf("checkbox", checked) : checked \in BOOLEAN}

PlainElements(n) ==
    {InputOf(type, FALSE) : type \in {"text", "file", "date"}}
       \cup {SelectOf(options) : options \in OptionLists(n)}
       \cup {DivOf(SelectPrefix \o <<"1">>, hiddenInput) :
                hiddenInput \in BOOLEAN}
       \cup {DivOf(<<"a">>, FALSE)}

\* No label, or a label for the element.
InjectorLabels ==
    {<<>>} \cup
    {<<[text |-> text, for |-> <<"a">>, box |-> 1, top |-> 1]>> :
        text \in {LabelText, <<"o", "f", "f">>, <<"t", "e", "r", "m", "s">>}}

InjectorPages(n) ==
    {[inputs |-> <<el>>, labels |-> labels, boxForm |-> <<TRUE, FALSE>>] :
        el \in LabelledElements, labels \in InjectorLabels}
    \cup
    {[inputs |-> <<el>>, labels |-> <<>>, boxForm |-> <<TRUE, FALSE>>] :
        el \in PlainElements(n)}

\* The values handed to the writers, by the type of the element: the
\* vocabulary of the checkboxes in both cases, the booleans and a word
\* outside the vocabulary; the values that match the options in one tier
\* or another or in none; a word and the empty string.
VocabularyStrings ==
    {<<"s","i","m">>, <<"S","I","M">>, <<"1">>, <<"o","n">>, <<"O","n">>,
     <<"n","a_tilde","o">>, <<"N","A_tilde","O">>, <<"0">>, <<"o","f","f">>,
     <<"O","F","F">>, <<"v">>}

\* A date in the Brazilian and in the ISO form, a day the month lacks, a
\* word and the empty string.
DateStrings ==
    {<<"31", "/", "12", "/", "2024">>, <<"2024", "-", "12", "-", "31">>,
     <<"31", "/", "02", "/", "2024">>, <<"v">>, <<>>}

SelectStrings ==
    {<<>>, <<"b">>, <<"B">>, <<"a","b">>, <<"a"," ","b">>, <<"x">>, <<"z">>}

InjectorValues(type) ==
    IF type \in {"checkbox", "radio"}
    THEN {Str(chars) : chars \in VocabularyStrings}
            \cup {Bool(b) : b \in BOOLEAN}
    ELSE IF type = "select-one" THEN {Str(chars) : chars \in SelectStrings}
    ELSE IF type = "date" THEN {Str(chars) : chars \in DateStrings}
    ELSE {Str(<<"v">>), Str(<<>>)}

\* positiveValues and negativeValues hold the booleans too.
positiveBooleans == {TRUE}
negativeBooleans == {FALSE}

\* fillCheckboxOrRadio for a string or a boolean: a boolean is compared as
\* it is, and only value === true checks a radio button.
fillCheckboxOrRadio_value(pg, i, v) ==
    IF v.typeof = "string" THEN fillCheckboxOrRadio(pg, i, v.chars)
    ELSE IF pg.inputs[i].type = "checkbox" /\ v.bool \in positiveBooleans
    THEN [pg EXCEPT !.inputs[i].checked = TRUE]
    ELSE IF pg.inputs[i].type = "checkbox" /\ v.bool \in negativeBooleans
    THEN [pg EXCEPT !.inputs[i].checked = FALSE]
    ELSE IF pg.inputs[i].type = "radio" /\ v.bool
    THEN [pg EXCEPT !.inputs[i].checked = TRUE]
    ELSE pg

\* The write of fillInputByIdx on an element of the element map, which holds
\* input and textarea elements only: the value, the two events and
\* applyFilledStyle; a write that throws is caught and gives false.
fillInputByIdx_write(pg, i, value) ==
    IF pg.inputs[i].type = "file" /\ value # <<>>
    THEN [page |-> pg, ok |-> FALSE, events |-> <<>>]
    ELSE [page |-> [setValue(pg, i, value) EXCEPT !.inputs[i].filled = TRUE],
          ok |-> TRUE,
          events |-> <<[type |-> "input", bubbles |-> TRUE,
                        target |-> Node(i, FALSE)],
                       [type |-> "change", bubbles |-> TRUE,
                        target |-> Node(i, FALSE)]>>]

NoWritesYet(pg) ==
    [doc |-> pg, before |-> pg, calls |-> 0, fn |-> "none", el |-> 0,
     value |-> Str(<<>>), ret |-> FALSE, events |-> <<>>, tier |-> "none",
     repeats |-> 0]

\* The latest call was fn on element i with value v.
Latest(x, fn, i, v) == x.calls > 0 /\ x.fn = fn /\ x.el = i /\ x.value = v

\* A caller makes a new call, or the latest call once more.
MayCall(x, fn, i, v) ==
    \/ x.calls < MaxWrites
    \/ Latest(x, fn, i, v) /\ x.repeats < MaxRepeats

\* A call of fn on element i with value v is over: r is [page, ok, events].
written(x, fn, i, v, r, tier) ==
    [doc |-> r.page, before |-> x.doc, calls |-> x.calls + 1, fn |-> fn,
     el |-> i, value |-> v, ret |-> r.ok, events |-> r.events,
     tier |-> tier,
     repeats |-> IF Latest(x, fn, i, v) THEN x.repeats + 1 ELSE 0]

InjectorInit ==
    /\ injector \in {NoWritesYet(pg) : pg \in InjectorPages(MaxOptions)}
    /\ IdleCache /\ IdleForm /\ IdleContent /\ IdleObserver /\ IdleValidator
    /\ IdlePipeline /\ IdleFlow /\ IdleStandalone /\ IdleIndexer
    /\ IdleDomObserver /\ IdleHighlight /\ IdleBackground

FillElement(i, v) ==
    /\ MayCall(injector, "fillElement", i, v)
    /\ v.typeof = "string"
    /\ injector' = written(injector, "fillElement", i, v,
                           fillElement(injector.doc, i, v.chars),
                           IF injector.doc.inputs[i].type = "select-one"
                           THEN matchedOption(injector.doc.inputs[i].options,
                                              v.chars).tier
                           ELSE "none")

FillSelectElement(i, v) ==
    /\ MayCall(injector, "fillSelectElement", i, v)
    /\ v.typeof = "string"
    /\ injector.doc.inputs[i].type = "select-one"
    /\ injector' = written(injector, "fillSelectElement", i, v,
                           [page |-> fillSelectElement(injector.doc, i,
                                                       v.chars),
                            ok |-> FALSE, events |-> <<>>],
                           matchedOption(injector.doc.inputs[i].options,
                                         v.chars).tier)

FillCheckboxOrRadio(i, v) ==
    /\ MayCall(injector, "fillCheckboxOrRadio", i, v)
    /\ injector.doc.inputs[i].type \in {"checkbox", "radio"}
    /\ injector' = written(injector, "fillCheckboxOrRadio", i, v,
                           [page |-> fillCheckboxOrRadio_value(injector.doc,
                                                               i, v),
                            ok |-> FALSE,
                            events |-> IF v.typeof = "string"
                                       THEN radioEvents(injector.doc, i,
                                                        v.chars)
                                       ELSE IF injector.doc.inputs[i].type
                                                  = "radio" /\ v.bool
                                       THEN triggerEvents(Node(i, FALSE))
                                       ELSE <<>>],
                           "none")

FillInputByIdx(i, v) ==
    /\ MayCall(injector, "fillInputByIdx", i, v)
    /\ v.typeof = "string"
    /\ injector.doc.inputs[i].type
          \in {"text", "file", "date", "checkbox", "radio"}
    /\ injector' = written(injector, "fillInputByIdx", i, v,
                           fillInputByIdx_write(injector.doc, i, v.chars),
                           "none")

InjectorNext ==
    /\ \E i \in Inputs(injector.doc) :
       \E v \in InjectorValues(injector.doc.inputs[i].type) :
          \/ FillElement(i, v)
          \/ FillSelectElement(i, v)
          \/ FillCheckboxOrRadio(i, v)
          \/ FillInputByIdx(i, v)
    /\ UNCHANGED notInjectorVars

SpecInjector == InjectorInit /\ [][InjectorNext]_vars

\* The latest call reported a successful write.
ReportedSuccessful(x) ==
    x.calls > 0 /\ x.fn \in {"fillElement", "fillInputByIdx"} /\ x.ret

\* The node the latest call writes to: the hidden input of a custom select,
\* else the element.
WrittenNode(x) ==
    Node(x.el, x.doc.inputs[x.el].type = "div")

\* C18: a write reported successful has dispatched, on the node written, an
\* input event and right after it a change event, both bubbling.
C18_InputThenChange ==
    ReportedSuccessful(injector) =>
       \E k \in DOMAIN injector.events :
          /\ k + 1 \in DOMAIN injector.events
          /\ injector.events[k] = [type |-> "input", bubbles |-> TRUE,
                                   target |-> WrittenNode(injector)]
          /\ injector.events[k + 1] = [type |-> "change", bubbles |-> TRUE,
                                       target |-> WrittenNode(injector)]

\* A successful write on each kind of node: a radio button that was
\* checked, with its events dispatched twice.
C18_Witness ==
    /\ ReportedSuccessful(injector)
    /\ injector.fn = "fillElement"
    /\ injector.doc.inputs[injector.el].type = "radio"
    /\ injector.doc.inputs[injector.el].checked
    /\ Len(injector.events) = 4

\* The first option that matches the value exactly (0: none).
FirstExact(options, value) ==
    First({k \in DOMAIN options : exactMatch(options[k], value)})

\* The latest call went through fillSelectElement.
SelectFilled(x) ==
    /\ x.calls > 0 /\ x.fn \in {"fillElement", "fillSelectElement"}
    /\ x.before.inputs[x.el].type = "select-one"

\* The tiers are tried in order: the substring tier matched only when no
\* option matches exactly, the normalized tier only when none matches in
\* the first two.
TiersInOrder(x) ==
    /\ x.tier = "exact" <=>
          FirstExact(x.before.inputs[x.el].options, x.value.chars) # 0
    /\ x.tier = "partial" =>
          \A k \in DOMAIN x.before.inputs[x.el].options :
             ~ exactMatch(x.before.inputs[x.el].options[k], x.value.chars)
    /\ x.tier = "normalized" =>
          \A k \in DOMAIN x.before.inputs[x.el].options :
             /\ ~ exactMatch(x.before.inputs[x.el].options[k], x.value.chars)
             /\ ~ partialOptionMatch(x.before.inputs[x.el].options[k],
                                     x.value.chars)

\* C19 as stated: after fillSelectElement, when an option equals the value
\* (by value or trimmed text, whatever the case), the first such option is
\* the selected one, and the tiers are tried in order.
C19_FirstExactSelected ==
    SelectFilled(injector) =>
       /\ FirstExact(injector.before.inputs[injector.el].options,
                     injector.value.chars) # 0 =>
             injector.doc.inputs[injector.el].selectedIndex =
                FirstExact(injector.before.inputs[injector.el].options,
                           injector.value.chars)
       /\ TiersInOrder(injector)

\* C19 as the code has it: the select gets the value of the first option
\* that equals the mapping value, and the option selected is the first one
\* that carries this value; the tiers are tried in order.
C19_FirstExactValueSelected ==
    SelectFilled(injector) =>
       /\ FirstExact(injector.before.inputs[injector.el].options,
                     injector.value.chars) # 0 =>
             /\ injector.doc.inputs[injector.el].value =
                   injector.before.inputs[injector.el].options[
                      FirstExact(injector.before.inputs[injector.el].options,
                                 injector.value.chars)].value
             /\ injector.doc.inputs[injector.el].selectedIndex =
                   First({k \in DOMAIN injector.doc.inputs[injector.el].options :
                            injector.doc.inputs[injector.el].options[k].value
                               = injector.doc.inputs[injector.el].value})
       /\ TiersInOrder(injector)

\* The second option equals the value and is selected, while the first one
\* matches by substring only.
C19_Witness ==
    /\ SelectFilled(injector)
    /\ Len(injector.before.inputs[injector.el].options) >= 2
    /\ FirstExact(injector.before.inputs[injector.el].options,
                  injector.value.chars) = 2
    /\ partialOptionMatch(injector.before.inputs[injector.el].options[1],
                          injector.value.chars)
    /\ injector.doc.inputs[injector.el].selectedIndex = 2
    /\ injector.before.inputs[injector.el].selectedIndex = 1

\* The values the claim names, in lower and in upper case.
CheckingValues ==
    {Str(<<"s","i","m">>), Str(<<"S","I","M">>), Str(<<"1">>), Bool(TRUE),
     Str(<<"o","n">>), Str(<<"O","n">>)}

UncheckingValues ==
    {Str(<<"n","a_tilde","o">>), Str(<<"N","A_tilde","O">>), Str(<<"0">>),
     Bool(FALSE), Str(<<"o","f","f">>), Str(<<"O","F","F">>)}

\* C20: after fillCheckboxOrRadio on a checkbox, the checkbox is checked
\* for "sim", "1", true and "on" and unchecked for "nao" with a tilde, "0",
\* false and "off", in any case of the letters.
C20_CheckboxVocabulary ==
    (/\ injector.calls > 0 /\ injector.fn = "fillCheckboxOrRadio"
     /\ injector.doc.inputs[injector.el].type = "checkbox") =>
       /\ injector.value \in CheckingValues =>
             injector.doc.inputs[injector.el].checked
       /\ injector.value \in UncheckingValues =>
             ~ injector.doc.inputs[injector.el].checked

\* A checked checkbox whose label would count as an agreement is unchecked
\* by "NAO" with a tilde.
C20_Witness ==
    /\ injector.calls > 0 /\ injector.fn = "fillCheckboxOrRadio"
    /\ injector.doc.inputs[injector.el].type = "checkbox"
    /\ injector.value = Str(<<"N","A_tilde","O">>)
    /\ injector.before.inputs[injector.el].checked
    /\ ~ injector.doc.inputs[injector.el].checked
    /\ injector.doc.labels # <<>>
    /\ injector.doc.labels[1].text = <<"t", "e", "r", "m", "s">>

\* What a write leaves on element i: its value, its checked state, its
\* selected option and the value of the hidden input of a custom select.
Written(pg, i) ==
    [value |-> pg.inputs[i].value,
     checked |-> pg.inputs[i].checked,
     selectedIndex |-> IF pg.inputs[i].type = "select-one"
                       THEN pg.inputs[i].selectedIndex ELSE 0,
     hiddenValue |-> IF pg.inputs[i].type = "div"
                     THEN pg.inputs[i].hiddenValue ELSE <<>>]

NothingSet(x) ==
    \/ /\ x.before.inputs[x.el].type = "select-one"
       /\ matchedOption(x.before.inputs[x.el].options, x.value.chars).option
             = 0
    \/ /\ x.before.inputs[x.el].type = "checkbox"
       /\ toLowerCase(x.value.chars) \notin positiveValues \cup negativeValues
       /\ \/ AssociatedLabelText(x.before, x.el) = <<>>
          \/ /\ ~ includes(toLowerCase(x.value.chars),
                           AssociatedLabelText(x.before, x.el))
             /\ ~ includes(AssociatedLabelText(x.before, x.el),
                           toLowerCase(x.value.chars))
             /\ \A term \in agreementTerms :
                   ~ includes(AssociatedLabelText(x.before, x.el), term)
    \/ /\ x.before.inputs[x.el].type = "radio"
       /\ ~ shouldCheck(x.before, x.el, x.value.chars)

\* C27: when fillElement sets nothing from the mapping it returns false
\* and leaves the element as it was.
C27_TrueOnlyIfSet ==
    (injector.calls > 0 /\ injector.fn = "fillElement"
       /\ NothingSet(injector)) =>
       /\ ~ injector.ret
       /\ injector.doc.inputs[injector.el]
             = injector.before.inputs[injector.el]

=============================================================================
